---- MODULE Spec2Model ----
(***************************************************************************)
(* Model of the OPC UA device support data element tree:                   *)
(*   - the leaf element with its bounded incoming update queue             *)
(*     (DataElementLeaf, UpdateQueue),                                     *)
(*   - the element tree builder (ElementTree::nearestNode / addLeaf),      *)
(*   - the vertex element that splits and assembles structured values      *)
(*     (DataElementVertex).                                                *)
(***************************************************************************)
EXTENDS Integers, Sequences, FiniteSets, TLC

(* ---------------------------------------------------------------------- *)
(* Bounds of the model                                                     *)
(* ---------------------------------------------------------------------- *)

\* largest queue capacity (clientQueueSize) a leaf is constructed with
MaxCapacity == 2
\* number of producer calls (setIncomingEvent) in one behaviour
MaxUpdates == 3
\* longest element path (number of name segments) handed to addLeaf
MaxPathLen == 3
\* number of addLeaf calls in one behaviour
MaxAdds == 2
\* number of leaves released in one behaviour
MaxReleases == 1
\* number of operations on the vertex and its children in one behaviour
MaxVertexOps == 4
\* number of write calls on the leaf in one behaviour
MaxWrites == 3
\* number of getOutgoingData calls that interleave with writes
MaxEncodes == 2

\* calls of Session::createSession
MaxSessions == 4
\* longest path (number of characters) handed to the split functions
MaxSplitLen == 4

VARIABLES
    \* ---- leaf ----
    capacity,        \* UpdateQueue::maxElements, fixed by the constructor
    discardOldest,   \* UpdateQueue discard policy, fixed by the constructor
    incomingQueue,   \* DataElementLeaf::incomingQueue (sequence of updates)
    incomingData,    \* DataElementUaSdk::incomingData (cache of latest value)
    itemState,       \* item->state(), the connection status of the item
    nextSeq,         \* number of the next producer call (its timestamp/value)
    pushed,          \* history: seq numbers handed to pushUpdate, in order
    popped,          \* history: seq numbers returned by popUpdate, in order
    requests,        \* number of pconnector->requestRecordProcessing calls
    drained,         \* the queue has been empty since the last request
    record,          \* the record bound to the leaf: which read it calls, and
                     \* whether it passes a place for the value / nextReason
    lastOp,          \* what the last leaf operation was handed and returned
    \* ---- element tree ----
    nodes,           \* the elements: name, isLeaf, parent, elements (children),
                     \* alive (owned by at least one shared_ptr)
    rootElement,     \* ElementTree::rootElement (weak: 0 if never set, else
                     \* the element it was set to, which may have expired)
    adds,            \* number of addLeaf calls so far
    lastAdd,         \* what the last addLeaf was handed and how it ended
    \* ---- vertex ----
    mapped,          \* DataElementVertex::mapped
    elementMap,      \* DataElementVertex::elementMap: field index -> child
    vIncomingData,   \* the vertex's incomingData (cache of latest value)
    vOutgoingData,   \* the vertex's outgoingData
    vIsDirty,        \* the vertex's isdirty
    children,        \* the elements of the vertex: name, isdirty, outgoingData
    mapBuilds,       \* number of mapChildren calls so far
    vOps,            \* number of operations on the vertex so far
    lastV,           \* what the last vertex operation was handed and did
    \* ---- writers of one leaf ----
    outgoingLock,    \* DataElementLeaf::outgoingLock: 0 when free, else the
                     \* writer holding it
    wIsDirty,        \* DataElementLeaf::isdirty
    wOutgoingData,   \* DataElementLeaf::outgoingData, stored part by part
    writer,          \* per writer: where it is in its write and its value
    lockOrder,       \* history: the values of the writes, in the order in
                     \* which they took the outgoing lock
    writes,          \* number of write calls so far
    \* ---- path splitting ----
    splitPath,       \* the std::string the split functions work on
    lastSplit,       \* what the last split was handed and returned
    \* ---- the record draining the leaf ----
    handled,         \* number of processing requests of the leaf the record
                     \* has been processed for
    draining,        \* the record saw a nextReason other than none and has
                     \* asked to be processed again
    \* ---- the vertex above the vertex ----
    parentMap,       \* elementMap of the parent vertex: field index -> element
    sibling,         \* the leaf that is the other element of the parent
    pMapped,         \* mapped of the parent vertex
    pIncomingData,   \* incomingData of the parent vertex
    pOutgoingData,   \* outgoingData of the parent vertex
    pIsDirty,        \* isdirty of the parent vertex
    \* ---- a getOutgoingData of the vertex in progress ----
    enc,             \* where the call is: the pairs of the map still to look
                     \* at, the generic value, the fields spliced so far
    encodes,         \* number of getOutgoingData calls begun so far
    wHist,           \* history, per element: the value of its last write,
                     \* how often that value was spliced, where it is now
    connLock,        \* pconnector->lock: who holds it
    push,            \* where a setIncomingEvent of the leaf stands
    during,          \* history: where the push stood when the record side
                     \* last took pconnector->lock
    lastW,           \* history: the last writeScalar<ET> and what it found
    once,            \* opcuaUaSdk_once: state of the epicsThreadOnceId
    caller,          \* per thread: where its Session::createSession stands
    inits,           \* number of calls of UaPlatformLayer::init
    initialized,     \* UaPlatformLayer::init has returned
    sessions,        \* the SessionUaSdk objects constructed, by thread
    calls,           \* number of Session::createSession calls so far
    early            \* history: a session was constructed before
                     \* UaPlatformLayer::init had returned

leafVars == << capacity, discardOldest, incomingQueue, incomingData, itemState,
               nextSeq, pushed, popped, requests, drained, record, lastOp >>

treeVars == << nodes, rootElement, adds, lastAdd >>

vertexVars == << mapped, elementMap, vIncomingData, vOutgoingData, vIsDirty,
                 children, mapBuilds, vOps, lastV >>

writeVars == << outgoingLock, wIsDirty, wOutgoingData, writer, lockOrder,
                writes >>

splitVars == << splitPath, lastSplit >>

drainVars == << handled, draining >>

parentVars == << parentMap, sibling, pMapped, pIncomingData, pOutgoingData,
                 pIsDirty >>

encVars == << enc, encodes, wHist >>

pushVars == << connLock, push, during >>

scalarVars == << lastW >>

sessionVars == << once, caller, inits, initialized, sessions, calls,
                 early >>

vars == << leafVars, treeVars, vertexVars, writeVars, splitVars, drainVars,
           parentVars, encVars, pushVars, scalarVars,
           sessionVars >>

\* what an operation on one part of the model leaves alone
notLeafVars ==
    << treeVars, vertexVars, writeVars, splitVars, drainVars, parentVars,
       encVars, pushVars, scalarVars, sessionVars >>
notTreeVars ==
    << leafVars, vertexVars, writeVars, splitVars, drainVars, parentVars,
       encVars, pushVars, scalarVars, sessionVars >>
notVertexVars ==
    << leafVars, treeVars, writeVars, splitVars, drainVars, parentVars,
       encVars, pushVars, scalarVars, sessionVars >>
notWriteVars ==
    << leafVars, treeVars, vertexVars, splitVars, drainVars, parentVars,
       encVars, pushVars, scalarVars, sessionVars >>
notSplitVars ==
    << leafVars, treeVars, vertexVars, writeVars, drainVars, parentVars,
       encVars, pushVars, scalarVars, sessionVars >>
notDrainVars ==
    << treeVars, vertexVars, writeVars, splitVars, parentVars, encVars,
       pushVars, scalarVars, sessionVars >>
notParentVars ==
    << leafVars, treeVars, writeVars, splitVars, drainVars, encVars,
       pushVars, scalarVars, sessionVars >>
notEncVars ==
    << leafVars, treeVars, writeVars, splitVars, drainVars, parentVars,
       pushVars, scalarVars, sessionVars >>
notPushVars ==
    << treeVars, vertexVars, writeVars, splitVars, drainVars, parentVars,
       encVars, scalarVars, sessionVars >>
\* (a writeScalar<ET> changes the slot of the write model as well)
notScalarVars ==
    << leafVars, treeVars, vertexVars, splitVars, drainVars, parentVars,
       encVars, pushVars, sessionVars >>
notSessionVars ==
    << leafVars, treeVars, vertexVars, writeVars, splitVars, drainVars,
       parentVars, encVars, pushVars, scalarVars >>

(* ---------------------------------------------------------------------- *)
(* Values                                                                  *)
(* ---------------------------------------------------------------------- *)

\* ConnectionStatus of an item
ConnectionStatus == {"down", "initialRead", "up"}

\* ProcessReason of updates that carry a value / that are events
DataReasons == {"incomingData", "readComplete"}
EventReasons == {"connectionLoss", "writeComplete"}

\* What a read finds in an update with value: a good status and data that
\* converts to the record's type ("ok"), a status that is not good
\* ("badStatus"), or a good status and data that does not convert or is not
\* an array of the expected type ("noFit").  The status and the data type of
\* an update are looked at by the read only, so they are drawn there.
Findings == {"ok", "badStatus", "noFit"}

\* markers for an output parameter the callee did not write, and for no value
Unset == "unset"
NoData == 0

\* Update<UaVariant, OpcUa_StatusCode>: time stamp, reason, value.
\* The value of an update is the number of the producer call that made it.
Update(seq, reason, hasData) ==
    [seq |-> seq, reason |-> reason, hasData |-> hasData]

(* ---------------------------------------------------------------------- *)
(* UpdateQueue                                                             *)
(* ---------------------------------------------------------------------- *)

\* pushUpdate with a capacity check that never discards
pushUpdate_Unbounded(q, cap, discard, u) ==
    LET q2 == Append(q, u)
    IN  [queue |-> q2, wasFirst |-> (Len(q2) = 1)]

\* pushUpdate whose discard-oldest branch drops the newest queued element
pushUpdate_DropBack(q, cap, discard, u) ==
    LET q2 == IF Len(q) >= cap
              THEN IF discard THEN Append(SubSeq(q, 1, Len(q) - 1), u) ELSE q
              ELSE Append(q, u)
    IN  [queue |-> q2, wasFirst |-> (Len(q2) = 1)]

\* UpdateQueue::pushUpdate(update, &wasFirst): at capacity, drop the head
\* (discardOldest) or the incoming update; wasFirst is true when the queue
\* holds exactly one element after the call.
pushUpdate(q, cap, discard, u) ==
    LET q2 == IF Len(q) >= cap
              THEN IF discard THEN Append(Tail(q), u) ELSE q
              ELSE Append(q, u)
    IN  [queue |-> q2, wasFirst |-> (Len(q2) = 1)]

\* UpdateQueue::popUpdate(&nextReason): remove and return the oldest element,
\* nextReason is the reason of the new head, or none.
popUpdate(q) ==
    [upd |-> Head(q),
     queue |-> Tail(q),
     nextReason |-> IF Tail(q) = << >> THEN "none" ELSE Head(Tail(q)).reason]

(* ---------------------------------------------------------------------- *)
(* DataElementLeaf: incoming side                                          *)
(* ---------------------------------------------------------------------- *)

NoUpdate == Update(0, "none", FALSE)

\* the record of an operation that has not touched anything yet
OpRecord(op) ==
    [op |-> op, before |-> incomingQueue, reason |-> "none", seq |-> 0,
     pushCalled |-> FALSE, wasFirst |-> FALSE, requested |-> 0,
     drainedBefore |-> drained,
     ret |-> 0, upd |-> NoUpdate,
     outValue |-> Unset, outNextReason |-> Unset, outNumRead |-> Unset]

\* a state check that lets every data update of the initial read through
ShouldEnqueue_AnyInitialRead(state, reason) ==
    state \in {"initialRead", "up"}

\* setIncomingEvent(reason, value): data updates are ignored during the
\* initial read, until the readComplete
ShouldEnqueue(state, reason) ==
    \/ (state = "initialRead" /\ reason = "readComplete")
    \/ state = "up"

\* a push that never asks for the record to be processed
RequestIfFirst_Never(wasFirst) == 0

\* if (wasFirst) pconnector->requestRecordProcessing(reason);
RequestIfFirst(wasFirst) == IF wasFirst THEN 1 ELSE 0

\* a leaf read that takes the newest update
LeafPop_Back(q) ==
    [upd |-> q[Len(q)],
     queue |-> SubSeq(q, 1, Len(q) - 1),
     nextReason |-> IF Len(q) = 1 THEN "none" ELSE q[Len(q) - 1].reason]

\* std::shared_ptr<UpdateUaSdk> upd = incomingQueue.popUpdate(&nReason);
LeafPop(q) == popUpdate(q)

\* a read that reports the reason of the update it returns
NextReasonOut_OwnReason(nextReasonPtr, p) ==
    IF nextReasonPtr THEN p.upd.reason ELSE Unset

\* if (nextReason) *nextReason = nReason;
NextReasonOut(nextReasonPtr, p) ==
    IF nextReasonPtr THEN p.nextReason ELSE Unset

\* a read that reports the empty queue as success
EmptyReadStatus_Ok == 1 - 1

\* if (incomingQueue.empty()) { ...; return 1; }
EmptyReadStatus == 1

\* The part of the leaf push operations behind the state check: make the
\* update, push it, request processing if it was the first.
LeafEnqueue(op, reason, u) ==
    LET r == pushUpdate(incomingQueue, capacity, discardOldest, u)
        n == RequestIfFirst(r.wasFirst)
    IN  /\ incomingQueue' = r.queue
        /\ pushed' = Append(pushed, u.seq)
        /\ requests' = requests + n
        /\ drained' = IF n > 0 THEN FALSE ELSE drained
        /\ lastOp' = [OpRecord(op) EXCEPT !.reason = reason, !.seq = u.seq,
                                          !.pushCalled = TRUE,
                                          !.wasFirst = r.wasFirst,
                                          !.requested = n]

\* DataElementLeaf::setIncomingEvent(ProcessReason reason, const UaVariant &value)
setIncomingEventData(reason) ==
    /\ nextSeq <= MaxUpdates
    /\ nextSeq' = nextSeq + 1
    /\ incomingData' = nextSeq
    /\ IF ShouldEnqueue(itemState, reason)
       THEN LeafEnqueue("setIncomingEventData", reason,
                        Update(nextSeq, reason, TRUE))
       ELSE /\ lastOp' = [OpRecord("setIncomingEventData") EXCEPT
                              !.reason = reason, !.seq = nextSeq]
            /\ UNCHANGED << incomingQueue, pushed, requests, drained >>
    /\ UNCHANGED << capacity, discardOldest, itemState, popped, record >>
    /\ UNCHANGED notLeafVars

\* DataElementLeaf::setIncomingEvent(ProcessReason reason)
setIncomingEvent(reason) ==
    /\ nextSeq <= MaxUpdates
    /\ nextSeq' = nextSeq + 1
    /\ LeafEnqueue("setIncomingEvent", reason,
                   Update(nextSeq, reason, FALSE))
    /\ UNCHANGED << capacity, discardOldest, incomingData, itemState, popped,
                    record >>
    /\ UNCHANGED notLeafVars

\* The switch on upd->getType() of the read operations: return status, value
\* written to the record, number of elements written.
\*   kind     "scalar" (readScalar<ET,OT>), "cstring" (readScalar(char*)),
\*            "array" (readArray<ET,OT>)
\*   valuePtr the caller gave a place for the value (value, num && value)
\*   found    what the read finds in the update (Findings)
ReadSwitch(kind, u, valuePtr, found) ==
    LET failed == u.reason \in {"readFailure", "connectionLoss"}
        isData == u.reason \in DataReasons
        good   == found # "badStatus"
        fits   == found # "noFit"
        copied == isData /\ valuePtr /\ good /\ (kind = "cstring" \/ fits)
        ret    == IF failed THEN 1
                  ELSE IF isData /\ valuePtr /\ ~good THEN 1
                  ELSE IF isData /\ valuePtr /\ kind = "array" /\ ~fits THEN 1
                  ELSE 0
    IN  [ret |-> ret,
         outValue |-> IF copied THEN u.seq ELSE Unset,
         outNumRead |-> IF kind = "array" /\ valuePtr
                        THEN (IF copied THEN 1 ELSE 0) ELSE Unset]

\* The read operations of the leaf (readScalar<ET,OT>, readScalar(char*),
\* readArray<ET,OT>): fail on the empty queue, else pop the oldest update,
\* convert it and hand out the reason of the next one.
LeafRead(op, kind, valuePtr, nextReasonPtr, found) ==
    IF incomingQueue = << >>
    THEN /\ lastOp' = [OpRecord(op) EXCEPT
                           !.ret = EmptyReadStatus,
                           !.outNumRead = IF kind = "array" THEN 0 ELSE Unset]
         /\ UNCHANGED << capacity, discardOldest, incomingQueue, incomingData,
                         itemState, nextSeq, pushed, popped, requests, drained,
                         record >>
    ELSE LET p == LeafPop(incomingQueue)
             s == ReadSwitch(kind, p.upd, valuePtr, found)
         IN  /\ incomingQueue' = p.queue
             /\ popped' = Append(popped, p.upd.seq)
             /\ drained' = (drained \/ p.queue = << >>)
             /\ lastOp' = [OpRecord(op) EXCEPT
                               !.ret = s.ret,
                               !.upd = p.upd,
                               !.outValue = s.outValue,
                               !.outNumRead = s.outNumRead,
                               !.outNextReason = NextReasonOut(nextReasonPtr, p)]
             /\ UNCHANGED << capacity, discardOldest, incomingData, itemState,
                             nextSeq, pushed, requests, record >>

\* DataElementLeaf::readScalar<ET,OT>
readScalar(found) ==
    /\ UNCHANGED notLeafVars
    /\ record.kind = "scalar"
    /\ LeafRead("readScalar", "scalar", record.valuePtr, record.nextReasonPtr,
                found)

\* DataElementLeaf::readScalar(char *value, const size_t num, ...)
readScalarCString(found) ==
    /\ UNCHANGED notLeafVars
    /\ record.kind = "cstring"
    /\ found # "noFit"
    /\ LeafRead("readScalarCString", "cstring", record.valuePtr,
                record.nextReasonPtr, found)

\* DataElementLeaf::readArray<ET,OT>
readArray(found) ==
    /\ UNCHANGED notLeafVars
    /\ record.kind = "array"
    /\ LeafRead("readArray", "array", record.valuePtr, record.nextReasonPtr,
                found)

\* the item's connection status changes (session up, down, initial read)
setState(s) ==
    /\ s # itemState
    /\ itemState' = s
    /\ lastOp' = OpRecord("setState")
    /\ UNCHANGED << capacity, discardOldest, incomingQueue, incomingData,
                    nextSeq, pushed, popped, requests, drained, record >>
    /\ UNCHANGED notLeafVars

\* ---------------------------------------------------------------------
\* setIncomingEvent of the leaf statement by statement, with the side of
\* the record that takes pconnector->lock
\* ---------------------------------------------------------------------

\* no setIncomingEvent under way
NoPush == [pc |-> "idle", op |-> "none", reason |-> "none", seq |-> 0,
           wasFirst |-> FALSE]

\* setIncomingEvent up to `Guard(pconnector->lock)`: the data version caches
\* the value and returns when the state check fails; else the unnamed Guard
\* is constructed, which takes the lock (and waits while it is held)
setIncomingEventGuard(op, reason) ==
    /\ push.pc = "idle"
    /\ nextSeq <= MaxUpdates
    /\ nextSeq' = nextSeq + 1
    /\ incomingData' = IF op = "setIncomingEventData" THEN nextSeq
                       ELSE incomingData
    /\ IF op = "setIncomingEventData" /\ ~ShouldEnqueue(itemState, reason)
       THEN /\ lastOp' = [OpRecord(op) EXCEPT !.reason = reason,
                                              !.seq = nextSeq]
            /\ UNCHANGED << connLock, push >>
       ELSE /\ connLock = "free"
            /\ connLock' = "producer"
            /\ push' = [NoPush EXCEPT !.pc = "guard", !.op = op,
                                      !.reason = reason, !.seq = nextSeq]
            /\ UNCHANGED lastOp
    /\ UNCHANGED << capacity, discardOldest, incomingQueue, itemState, pushed,
                    popped, requests, drained, record, during >>
    /\ UNCHANGED notPushVars

\* the `;` that ends `Guard(pconnector->lock);`: the Guard has no name, it
\* is a temporary, and its destructor gives the lock back here
setIncomingEventGuardEnd ==
    /\ push.pc = "guard"
    /\ connLock' = "free"
    /\ push' = [push EXCEPT !.pc = "unguarded"]
    /\ UNCHANGED << leafVars, during >>
    /\ UNCHANGED notPushVars

\* incomingQueue.pushUpdate(std::shared_ptr<UpdateUaSdk>(u), &wasFirst);
setIncomingEventPush ==
    /\ push.pc = "unguarded"
    /\ LET u == Update(push.seq, push.reason,
                       push.op = "setIncomingEventData")
           r == pushUpdate(incomingQueue, capacity, discardOldest, u)
       IN  /\ incomingQueue' = r.queue
           /\ pushed' = Append(pushed, u.seq)
           /\ push' = [push EXCEPT !.pc = "enqueued",
                                   !.wasFirst = r.wasFirst]
    /\ UNCHANGED << capacity, discardOldest, incomingData, itemState,
                    nextSeq, popped, requests, drained, record, lastOp,
                    connLock, during >>
    /\ UNCHANGED notPushVars

\* if (wasFirst) pconnector->requestRecordProcessing(reason); and return
setIncomingEventRequest ==
    /\ push.pc = "enqueued"
    /\ LET n == RequestIfFirst(push.wasFirst)
       IN  /\ requests' = requests + n
           /\ drained' = IF n > 0 THEN FALSE ELSE drained
           /\ lastOp' = [OpRecord(push.op) EXCEPT
                             !.reason = push.reason, !.seq = push.seq,
                             !.pushCalled = TRUE,
                             !.wasFirst = push.wasFirst,
                             !.requested = n]
    /\ push' = NoPush
    /\ UNCHANGED << capacity, discardOldest, incomingQueue, incomingData,
                    itemState, nextSeq, pushed, popped, record, connLock,
                    during >>
    /\ UNCHANGED notPushVars

\* the record side takes pconnector->lock
recordLock ==
    /\ connLock = "free"
    /\ connLock' = "record"
    /\ during' = push.pc
    /\ UNCHANGED << leafVars, push >>
    /\ UNCHANGED notPushVars

\* the record side reads from the leaf and gives the lock back
recordRead(found) ==
    /\ connLock = "record"
    /\ LeafRead("readScalar", "scalar", record.valuePtr, record.nextReasonPtr,
                found)
    /\ connLock' = "free"
    /\ UNCHANGED << push, during >>
    /\ UNCHANGED notPushVars

PushIdle ==
    /\ connLock = "free"
    /\ push = NoPush
    /\ during = "none"

\* DataElementLeaf::DataElementLeaf: the queue takes clientQueueSize and
\* discardOldest of the record's link; nothing is queued, nothing is dirty.
LeafFields ==
    /\ capacity \in 1..MaxCapacity
    /\ discardOldest \in BOOLEAN
    /\ incomingQueue = << >>
    /\ incomingData = NoData
    /\ nextSeq = 1
    /\ pushed = << >>
    /\ popped = << >>
    /\ requests = 0
    /\ drained = TRUE
    /\ record \in [kind : {"scalar", "cstring", "array"},
                   valuePtr : BOOLEAN, nextReasonPtr : BOOLEAN]
    /\ lastOp = [op |-> "init", before |-> << >>, reason |-> "none", seq |-> 0,
                 pushCalled |-> FALSE, wasFirst |-> FALSE, requested |-> 0,
                 drainedBefore |-> TRUE,
                 ret |-> 0, upd |-> NoUpdate,
                 outValue |-> Unset, outNextReason |-> Unset,
                 outNumRead |-> Unset]

\* a leaf constructed on an item that is not connected yet
LeafConstructed ==
    /\ itemState = "down"
    /\ LeafFields

\* what a read can find in the update it is about to pop
ReadFindings ==
    IF incomingQueue # << >> /\ Head(incomingQueue).hasData
    THEN Findings ELSE {"ok"}

(* ---------------------------------------------------------------------- *)
(* ElementTree                                                             *)
(* ---------------------------------------------------------------------- *)

\* names of path segments
Names == {"a", "b"}

\* the element paths handed to addLeaf: lists of at most MaxPathLen names
Paths == UNION {[1..n -> Names] : n \in 0..MaxPathLen}

\* no element: an empty shared_ptr / weak_ptr
Null == 0

\* E::E(name, item): an element that is a vertex (node) of the tree
Vertex(name) ==
    [name |-> name, isLeaf |-> FALSE, parent |-> Null, elements |-> << >>,
     alive |-> TRUE]

\* the leaf element the caller makes for a path, named by its last segment
Leaf(name) ==
    [name |-> name, isLeaf |-> TRUE, parent |-> Null, elements |-> << >>,
     alive |-> TRUE]

LeafName(path) == IF path = << >> THEN "<ROOT>" ELSE path[Len(path)]

\* weak_ptr::lock(): the element referred to while it is alive, else Null
lock(ns, ref) == IF ref # Null /\ ns[ref].alive THEN ref ELSE Null

\* E::findChild(name): the first child of that name that can still be
\* locked, Null if there is none
findChild(ns, elem, name) ==
    LET kids == ns[elem].elements
        hits == {i \in 1..Len(kids) :
                     lock(ns, kids[i]) # Null /\ ns[kids[i]].name = name}
    IN  IF hits = {} THEN Null
        ELSE kids[CHOOSE i \in hits : \A j \in hits : i <= j]

\* an addChild that does not put the child into the list of the element
addChild_Dropped(ns, elem, child) == ns

\* E::addChild(child), applied to element `elem` of ns
addChild(ns, elem, child) ==
    [ns EXCEPT ![elem].elements = Append(@, child)]

\* E::setParent(parent), applied to element `elem` of ns
setParent(ns, elem, parent) ==
    [ns EXCEPT ![elem].parent = parent]

\* a walk that stops below the first matching child
WalkDown_Once(ns, elem, path) ==
    LET nextelem == findChild(ns, elem, Head(path))
    IN  IF nextelem # Null
        THEN [node |-> nextelem, rest |-> Tail(path)]
        ELSE [node |-> elem, rest |-> path]

\* the do-while loop of nearestNode: walk down the chain of children as long
\* as the names match; gives the element reached and the path left over
RECURSIVE WalkDown(_, _, _)
WalkDown(ns, elem, path) ==
    LET nextelem == findChild(ns, elem, Head(path))
    IN  IF nextelem # Null
        THEN IF Tail(path) # << >>
             THEN WalkDown(ns, nextelem, Tail(path))
             ELSE [node |-> nextelem, rest |-> << >>]
        ELSE [node |-> elem, rest |-> path]

\* a nearestNode that gives no element when no name of the path matched
nearestNode_NoOverlap(ns, root, path) ==
    IF path = << >> THEN [node |-> Null, rest |-> path]
    ELSE IF lock(ns, root) = Null THEN [node |-> Null, rest |-> path]
    ELSE LET w == WalkDown(ns, lock(ns, root), path)
         IN  IF w.rest = path THEN [node |-> Null, rest |-> path] ELSE w

\* ElementTree::nearestNode(path)
nearestNode(ns, root, path) ==
    IF path = << >> THEN [node |-> Null, rest |-> path]
    ELSE IF lock(ns, root) = Null THEN [node |-> Null, rest |-> path]
    ELSE WalkDown(ns, lock(ns, root), path)

\* addLeaf without the test for an existing root
RootLocked_Never(ns, root) == FALSE

\* if (rootElement.lock()) throw ...
RootLocked(ns, root) == lock(ns, root) # Null

\* addLeaf without the test for an existing leaf
BranchIsLeaf_Never(ns, branch) == FALSE

\* if (branch && branch->isLeaf()) throw ...
BranchIsLeaf(ns, branch) == branch # Null /\ ns[branch].isLeaf

\* a chain built in path order, the first name closest to the leaf
ChainNames_TopDown(rest) == SubSeq(rest, 1, Len(rest) - 1)

\* path.pop_back(); for (rit = path.crbegin(); ...): the names of the chain
\* of new vertices in the order they are made, the last name but one first
ChainNames(rest) ==
    [i \in 1..(Len(rest) - 1) |-> rest[Len(rest) - i]]

\* the for loop of addLeaf: make a vertex per name, each the parent of the
\* element made before it; gives the elements and the top of the chain
RECURSIVE BuildChain(_, _, _)
BuildChain(ns, elem, names) ==
    IF names = << >> THEN [nodes |-> ns, top |-> elem]
    ELSE LET node == Len(ns) + 1
             n1 == Append(ns, Vertex(Head(names)))
             n2 == addChild(n1, node, elem)
             n3 == setParent(n2, elem, node)
         IN  BuildChain(n3, node, Tail(names))

\* the unnamed root vertex gets no name at all
RootVertexName_Empty == ""

\* std::make_shared<E>("[ROOT]", item)
RootVertexName == "[ROOT]"

\* the root is assigned first and the test for an existing root made after
RootExistsError_Assigned(ns, root, leaf, branch, path) ==
    [result |-> "rootExists", nodes |-> ns, root |-> leaf,
     branch |-> branch, rest |-> path]

\* if (rootElement.lock()) throw ...: the tree as the throw leaves it
RootExistsError(ns, root, leaf, branch, path) ==
    [result |-> "rootExists", nodes |-> ns, root |-> root,
     branch |-> branch, rest |-> path]

\* ElementTree::addLeaf(leaf, fullpath), on elements ns with root `root`,
\* for the leaf that is element `leaf` of ns
AddLeaf(ns, root, leaf, fullpath) ==
    LET nn == nearestNode(ns, root, fullpath)
        branch == nn.node
        path == nn.rest
    IN  IF BranchIsLeaf(ns, branch)
        THEN [result |-> "leafError", nodes |-> ns, root |-> root,
              branch |-> branch, rest |-> path]
        ELSE IF path = << >>
        THEN IF RootLocked(ns, root)
             THEN RootExistsError(ns, root, leaf, branch, path)
             ELSE [result |-> "ok", nodes |-> ns, root |-> leaf,
                   branch |-> branch, rest |-> path]
        ELSE LET c == BuildChain(ns, leaf, ChainNames(path))
             IN  IF branch # Null
                 THEN [result |-> "ok",
                       nodes |-> setParent(addChild(c.nodes, branch, c.top),
                                           c.top, branch),
                       root |-> root, branch |-> branch, rest |-> path]
                 ELSE LET node == Len(c.nodes) + 1
                          n1 == Append(c.nodes, Vertex(RootVertexName))
                          n2 == addChild(n1, node, c.top)
                          n3 == setParent(n2, c.top, node)
                      IN  [result |-> "ok", nodes |-> n3, root |-> node,
                           branch |-> branch, rest |-> path]

\* the last addLeaf as the next one remembers it
Previous(la) ==
    [path |-> la.path, result |-> la.result,
     nodesBefore |-> la.nodesBefore, rootBefore |-> la.rootBefore]

NoPrevious ==
    [path |-> << >>, result |-> "none", nodesBefore |-> << >>,
     rootBefore |-> Null]

\* only the element itself is destroyed, its ancestors stay
Release_LeafOnly(ns, n) == [ns EXCEPT ![n].alive = FALSE]

\* shared_ptr reference counting: element n lost its last owner and is
\* destroyed; with it goes its reference to its parent, which is destroyed
\* in turn when no other living element refers to it as its parent
RECURSIVE Release(_, _)
Release(ns, n) ==
    LET n1 == [ns EXCEPT ![n].alive = FALSE]
        p == ns[n].parent
    IN  IF p = Null THEN n1
        ELSE IF \E c \in 1..Len(n1) : n1[c].alive /\ n1[c].parent = p
        THEN n1
        ELSE Release(n1, p)

\* The caller makes the leaf for `fullpath` and hands it to addLeaf; when
\* addLeaf throws, the caller gives the leaf up and the elements that were
\* there before are as addLeaf left them.
Added(ns, root, fullpath) ==
    LET leaf == Len(ns) + 1
        r == AddLeaf(Append(ns, Leaf(LeafName(fullpath))), root, leaf, fullpath)
    IN  [result |-> r.result,
         nodes |-> IF r.result = "ok" THEN r.nodes
                   ELSE SubSeq(r.nodes, 1, Len(ns)),
         root |-> r.root,
         leaf |-> IF r.result = "ok" THEN leaf ELSE Null,
         branch |-> r.branch, rest |-> r.rest]

addLeaf(fullpath) ==
    /\ adds < MaxAdds
    /\ adds' = adds + 1
    /\ LET r == Added(nodes, rootElement, fullpath)
       IN  /\ nodes' = r.nodes
           /\ rootElement' = r.root
           /\ lastAdd' = [path |-> fullpath, result |-> r.result,
                          leaf |-> r.leaf,
                          branch |-> r.branch, rest |-> r.rest,
                          nodesBefore |-> nodes, rootBefore |-> rootElement,
                          prev |-> Previous(lastAdd)]
    /\ UNCHANGED notTreeVars

\* the record connector drops its reference to leaf l, the only external
\* reference to an element of the tree
releaseLeaf(l) ==
    /\ l \in 1..Len(nodes)
    /\ nodes[l].isLeaf /\ nodes[l].alive
    /\ Cardinality({n \in 1..Len(nodes) : nodes[n].isLeaf /\ ~nodes[n].alive})
           < MaxReleases
    /\ nodes' = Release(nodes, l)
    /\ lastAdd' = [path |-> << >>, result |-> "released", leaf |-> l,
                   branch |-> Null, rest |-> << >>,
                   nodesBefore |-> nodes, rootBefore |-> rootElement,
                   prev |-> NoPrevious]
    /\ UNCHANGED << rootElement, adds >>
    /\ UNCHANGED notTreeVars

\* ---------------------------------------------------------------------
\* The tree builder of the open62541 client:
\* DataElementOpen62541::addElementToTree
\* ---------------------------------------------------------------------

\* if (leafname.empty()) leafname = "[ROOT]";
LeafNameOpen62541(path) ==
    IF path = << >> THEN "[ROOT]" ELSE path[Len(path)]

\* the do-while loop over restpath: while the first name is that of a
\* living element below topelem, go there; an empty name matches nothing
RECURSIVE FindExisting(_, _, _)
FindExisting(ns, topelem, restpath) ==
    IF restpath = << >> THEN [node |-> topelem, rest |-> restpath]
    ELSE LET pit == findChild(ns, topelem, Head(restpath))
         IN  IF pit = Null THEN [node |-> topelem, rest |-> restpath]
             ELSE IF Tail(restpath) = << >>
             THEN [node |-> pit, rest |-> << >>]
             ELSE FindExisting(ns, pit, Tail(restpath))

\* "Create remaining chain, bottom up": the names in the order the
\* vertices are made, the last name first
RemainingChain(restpath) ==
    [i \in 1..Len(restpath) |-> restpath[Len(restpath) + 1 - i]]

\* DataElementOpen62541::addElementToTree(item, pcon, fullpath), on elements
\* ns with root `root`, for the leaf it makes as element `leaf` of ns and
\* hands to the connector before it looks at the tree
AddElementToTree(ns, root, leaf, fullpath) ==
    LET hasRootElement == lock(ns, root) # Null
        restpath == SubSeq(fullpath, 1, Len(fullpath) - 1)
    IN  IF fullpath = << >>
        THEN IF hasRootElement
             THEN [result |-> "rootExists", nodes |-> ns, root |-> root,
                   branch |-> root, rest |-> << >>]
             ELSE [result |-> "ok", nodes |-> ns, root |-> leaf,
                   branch |-> Null, rest |-> << >>]
        ELSE IF hasRootElement
        THEN LET f == FindExisting(ns, root, restpath)
                 c == BuildChain(ns, leaf, RemainingChain(f.rest))
             IN  [result |-> "ok",
                  nodes |-> setParent(addChild(c.nodes, f.node, c.top),
                                      c.top, f.node),
                  root |-> root, branch |-> f.node, rest |-> f.rest]
        ELSE LET c == BuildChain(ns, leaf, RemainingChain(restpath))
                 node == Len(c.nodes) + 1
                 n1 == Append(c.nodes, Vertex(RootVertexName))
                 n2 == addChild(n1, node, c.top)
                 n3 == setParent(n2, c.top, node)
             IN  [result |-> "ok", nodes |-> n3, root |-> node,
                  branch |-> Null, rest |-> restpath]

\* the call for a record: the leaf is made and pcon->setDataElement(leaf)
\* keeps it, thrown or not
addElementToTree(fullpath) ==
    /\ adds < MaxAdds
    /\ adds' = adds + 1
    /\ LET leaf == Len(nodes) + 1
           r == AddElementToTree(
                    Append(nodes, Leaf(LeafNameOpen62541(fullpath))),
                    rootElement, leaf, fullpath)
       IN  /\ nodes' = r.nodes
           /\ rootElement' = r.root
           /\ lastAdd' = [path |-> fullpath, result |-> r.result,
                          leaf |-> leaf,
                          branch |-> r.branch, rest |-> r.rest,
                          nodesBefore |-> nodes, rootBefore |-> rootElement,
                          prev |-> Previous(lastAdd)]
    /\ UNCHANGED notTreeVars

\* ElementTree::ElementTree(item): no root yet
TreeEmpty ==
    /\ nodes = << >>
    /\ rootElement = Null
    /\ adds = 0
    /\ lastAdd = [path |-> << >>, result |-> "none", leaf |-> Null,
                  branch |-> Null, rest |-> << >>,
                  nodesBefore |-> << >>, rootBefore |-> Null,
                  prev |-> NoPrevious]

(* ---------------------------------------------------------------------- *)
(* DataElementVertex                                                       *)
(* ---------------------------------------------------------------------- *)

\* encoding type ids of the structured values the vertex is handed
TypeIds == {"S1", "S2", "U", "X", "P"}

\* item->structureDefinition(typeId): the definition the type dictionary
\* holds for a type id; none (isNull) for a type it does not know
structureDefinition(typeId) ==
    CASE typeId = "S1" -> [isNull |-> FALSE, isUnion |-> FALSE,
                           child |-> << "x", "y" >>]
      [] typeId = "S2" -> [isNull |-> FALSE, isUnion |-> FALSE,
                           child |-> << "y", "x" >>]
      [] typeId = "U"  -> [isNull |-> FALSE, isUnion |-> TRUE,
                           child |-> << "x", "y" >>]
      [] typeId = "P"  -> [isNull |-> FALSE, isUnion |-> FALSE,
                           child |-> << "v", "s" >>]
      [] OTHER         -> [isNull |-> TRUE, isUnion |-> FALSE,
                           child |-> << >>]

\* a UaVariant holding an extension object: its type id and encoded fields
ExtensionObject(typeId, fields) ==
    [type |-> "ExtensionObject", typeId |-> typeId, fields |-> fields]

\* a UaVariant holding a scalar
ScalarVariant == [type |-> "Scalar", typeId |-> "none", fields |-> << 1 >>]

\* a UaVariant nothing was put into
EmptyVariant == [type |-> "Empty", typeId |-> "none", fields |-> << >>]

\* the values handed to the vertex
VertexValues ==
    {ExtensionObject("S1", << 1, 2 >>), ExtensionObject("S1", << 2, 1 >>),
     ExtensionObject("S2", << 3, 4 >>), ExtensionObject("U", << 1, 2 >>),
     ExtensionObject("X", << 1, 2 >>), ScalarVariant}

\* the values handed to the vertex below a parent vertex: two structures
\* with the same field names in a different order, and a scalar
FanOutValues ==
    {ExtensionObject("S1", << 1, 2 >>), ExtensionObject("S2", << 3, 4 >>),
     ScalarVariant}

\* the values handed to the vertex while records write to its leaves
EncodeValues == {ExtensionObject("S1", << 1, 2 >>), ScalarVariant}

\* the values records write to the children
OutVals == {5}

\* the names of the elements of the vertex, in the order they were added
ChildNames == << "x", "y", "z" >>

\* clientQueueSize and discardOldest of the records bound to the elements
ChildQueueSize == << 1, 2, 1 >>
ChildDiscardOldest == << TRUE, TRUE, FALSE >>

\* UaGenericStructureValue::setGenericValue / toExtensionObject: the fields
\* of an extension object decoded, and encoded again
genericValue(value) == value.fields
toExtensionObject(value, fields) == [value EXCEPT !.fields = fields]

\* the value is an extension object the type dictionary has no definition
\* for: definition.isNull()
NotFound(value) ==
    /\ value.type = "ExtensionObject"
    /\ structureDefinition(value.typeId).isNull

\* the vertex operation v was a setIncomingEvent(reason, value) that found
\* no definition
FailedDecode(v) == v.op = "setIncomingEventData" /\ NotFound(v.value)

\* the process has not been ended by a call through an empty pointer
Running == lastV.outcome # "crash"

\* what a vertex operation leaves behind for the properties
VertexRecord(op) ==
    [op |-> op, reason |-> "none", value |-> EmptyVariant,
     failedBefore |-> lastV.failedBefore \/ FailedDecode(lastV),
     mappedBefore |-> mapped, mapBefore |-> elementMap,
     buildsBefore |-> mapBuilds, childrenBefore |-> children,
     incomingBefore |-> vIncomingData, obtained |-> FALSE,
     driven |-> << >>, spliced |-> {}, reencoded |-> FALSE,
     ret |-> EmptyVariant,
     requested |-> [c \in 1..Len(ChildNames) |-> 0],
     siblingBefore |-> sibling, siblingRequested |-> 0,
     expired |-> {}, outcome |-> "ok",
     aliveBefore |-> {c \in 1..Len(children) : children[c].alive}]

\* a map that pairs the fields with the elements by position, from the last
\* element on
mapChildren_FromEnd(els, definition) ==
    [i \in 1..Len(definition.child) |-> Len(els) + 1 - i]

\* the elements among `targets` whose weak reference has expired:
\* it.lock() gives an empty pointer for them
Expired(els, targets) == {c \in targets : ~els[c].alive}

\* what a call through the empty pointer that it.lock() gives for an
\* expired reference can do (the code does not test the pointer): end the
\* process, or return without having touched a living element
Outcomes(gone) == IF gone = {} THEN {"ok"} ELSE {"crash", "survive"}

\* mapChildren(definition): for every element, in order, and every field of
\* its name, elementMap.insert({i, it}); insert keeps an index already there
\* (the name read through an empty pointer matches no field)
mapChildren(els, definition) ==
    LET named(c, i) == els[c].alive /\ els[c].name = definition.child[i]
        fieldsOf == {i \in 1..Len(definition.child) :
                         \E c \in 1..Len(els) : named(c, i)}
    IN  [i \in fieldsOf |->
             CHOOSE c \in 1..Len(els) :
                 /\ named(c, i)
                 /\ \A d \in 1..Len(els) : named(d, i) => c <= d]

\* the pairs of a map whose element is still there
LivePairs(map, els) == {i \in DOMAIN map : els[map[i]].alive}

\* if (!mapped) mapChildren(definition);
MapIfNeeded(isMapped, map, els, definition) ==
    IF ~isMapped
    THEN [map |-> mapChildren(els, definition), mapped |-> TRUE, built |-> 1]
    ELSE [map |-> map, mapped |-> isMapped, built |-> 0]

\* the value has a structure definition the vertex works with
Obtained(value) ==
    /\ value.type = "ExtensionObject"
    /\ ~structureDefinition(value.typeId).isNull
    /\ ~structureDefinition(value.typeId).isUnion

\* DataElementLeaf::setIncomingEvent(reason, value) of element c: cache
\* the value, enqueue an update unless the initial read suppresses it,
\* request processing if it was the first
childSetIncomingEventData(pelem, c, reason, value) ==
    LET r == pushUpdate(pelem.incomingQueue, ChildQueueSize[c],
                        ChildDiscardOldest[c], Update(value, reason, TRUE))
    IN  IF ShouldEnqueue(itemState, reason)
        THEN [pelem |-> [pelem EXCEPT !.incomingData = value,
                                      !.incomingQueue = r.queue],
              requested |-> RequestIfFirst(r.wasFirst)]
        ELSE [pelem |-> [pelem EXCEPT !.incomingData = value],
              requested |-> 0]

\* DataElementLeaf::setIncomingEvent(reason) of element c
childSetIncomingEvent(pelem, c, reason) ==
    LET r == pushUpdate(pelem.incomingQueue, ChildQueueSize[c],
                        ChildDiscardOldest[c], Update(0, reason, FALSE))
    IN  [pelem |-> [pelem EXCEPT !.incomingQueue = r.queue],
         requested |-> RequestIfFirst(r.wasFirst)]

\* no element asked for its record to be processed
NoneRequested(els) == [c \in 1..Len(els) |-> 0]

\* for (auto &it : elementMap)
\*     pelem->setIncomingEvent(reason, genericValue.value(it.first));
\* for the indices in `todo`
RECURSIVE DriveAll(_, _, _, _, _)
DriveAll(map, todo, fields, reason, els) ==
    IF todo = {} THEN [els |-> els, requested |-> NoneRequested(els)]
    ELSE LET i == CHOOSE j \in todo : TRUE
             d == childSetIncomingEventData(els[map[i]], map[i], reason,
                                            fields[i])
             r == DriveAll(map, todo \ {i}, fields, reason,
                           [els EXCEPT ![map[i]] = d.pelem])
         IN  [r EXCEPT !.requested[map[i]] = @ + d.requested]

\* an event that is forwarded to the mapped elements only
EventTargets_Mapped(els, map) == {map[i] : i \in DOMAIN map}

\* for (auto &it : elements): the elements an event is forwarded to
EventTargets(els, map) == 1..Len(els)

\* for (auto &it : elements) pelem->setIncomingEvent(reason);
\* for the elements in `todo`
RECURSIVE ForwardAll(_, _, _)
ForwardAll(todo, reason, els) ==
    IF todo = {} THEN [els |-> els, requested |-> NoneRequested(els)]
    ELSE LET c == CHOOSE d \in todo : TRUE
             f == childSetIncomingEvent(els[c], c, reason)
             r == ForwardAll(todo \ {c}, reason, [els EXCEPT ![c] = f.pelem])
         IN  [r EXCEPT !.requested[c] = @ + f.requested]

\* a request that is forwarded to every element
RequestTargets_All(els, map) == 1..Len(els)

\* for (auto &it : elementMap): the elements a processing request is
\* forwarded to
RequestTargets(els, map) == {map[i] : i \in DOMAIN map}

\* the body of DataElementVertex::setIncomingEvent(reason, value) for a
\* vertex with the given flag, map and elements: what it leaves of them
\* and the pushes it made
DecodeVertex(isMapped, map, els, reason, value) ==
    IF Obtained(value)
    THEN LET m == MapIfNeeded(isMapped, map, els,
                              structureDefinition(value.typeId))
             d == DriveAll(m.map, LivePairs(m.map, els),
                           genericValue(value), reason, els)
         IN  [mapped |-> m.mapped, map |-> m.map, built |-> m.built,
              els |-> d.els, requested |-> d.requested, obtained |-> TRUE,
              driven |-> [i \in LivePairs(m.map, els) |->
                              [child |-> m.map[i], reason |-> reason,
                               value |-> genericValue(value)[i]]],
              gone |-> Expired(els, IF isMapped THEN {}
                                    ELSE 1..Len(els))
                       \cup Expired(els, {m.map[i] : i \in DOMAIN m.map})]
    ELSE [mapped |-> isMapped, map |-> map, built |-> 0, els |-> els,
          requested |-> NoneRequested(els), obtained |-> FALSE,
          driven |-> << >>, gone |-> {}]

\* DataElementVertex::setIncomingEvent(reason, value)
vertexSetIncomingEventData(reason, value) ==
    /\ Running
    /\ vOps < MaxVertexOps
    /\ vOps' = vOps + 1
    /\ vIncomingData' = value
    /\ LET d == DecodeVertex(mapped, elementMap, children, reason, value)
       IN  \E outcome \in Outcomes(d.gone) :
               IF outcome = "crash"
               THEN /\ UNCHANGED << mapped, elementMap, mapBuilds, children >>
                    /\ lastV' = [VertexRecord("setIncomingEventData") EXCEPT
                                     !.reason = reason, !.value = value,
                                     !.expired = d.gone,
                                     !.outcome = outcome]
               ELSE /\ mapped' = d.mapped
                    /\ elementMap' = d.map
                    /\ mapBuilds' = mapBuilds + d.built
                    /\ children' = d.els
                    /\ lastV' = [VertexRecord("setIncomingEventData") EXCEPT
                                     !.reason = reason, !.value = value,
                                     !.obtained = d.obtained,
                                     !.driven = d.driven,
                                     !.requested = d.requested,
                                     !.expired = d.gone,
                                     !.outcome = outcome]
    /\ UNCHANGED << vOutgoingData, vIsDirty >>
    /\ UNCHANGED notVertexVars

\* DataElementVertex::setIncomingEvent(reason): forwarded to every element
vertexSetIncomingEvent(reason) ==
    /\ Running
    /\ vOps < MaxVertexOps
    /\ vOps' = vOps + 1
    /\ LET targets == EventTargets(children, elementMap)
           gone == Expired(children, targets)
           f == ForwardAll(targets \ gone, reason, children)
       IN  \E outcome \in Outcomes(gone) :
               IF outcome = "crash"
               THEN /\ UNCHANGED children
                    /\ lastV' = [VertexRecord("setIncomingEvent") EXCEPT
                                     !.reason = reason, !.expired = gone,
                                     !.outcome = outcome]
               ELSE /\ children' = f.els
                    /\ lastV' = [VertexRecord("setIncomingEvent") EXCEPT
                                     !.reason = reason,
                                     !.driven = [c \in targets \ gone |->
                                                     [child |-> c,
                                                      reason |-> reason,
                                                      value |-> Unset]],
                                     !.requested = f.requested,
                                     !.expired = gone,
                                     !.outcome = outcome]
    /\ UNCHANGED << mapped, elementMap, vIncomingData, vOutgoingData,
                    vIsDirty, mapBuilds >>
    /\ UNCHANGED notVertexVars

\* DataElementVertex::requestRecordProcessing(reason): forwarded to the
\* elements of the map; a leaf hands it to its connector
vertexRequestRecordProcessing(reason) ==
    /\ Running
    /\ vOps < MaxVertexOps
    /\ vOps' = vOps + 1
    /\ LET targets == RequestTargets(children, elementMap)
           gone == Expired(children, targets)
       IN  \E outcome \in Outcomes(gone) :
               lastV' = [VertexRecord("requestRecordProcessing") EXCEPT
                            !.reason = reason,
                            !.requested =
                                [c \in 1..Len(children) |->
                                     IF c \in targets \ gone
                                        /\ outcome # "crash"
                                     THEN 1 ELSE 0],
                            !.expired = gone,
                            !.outcome = outcome]
    /\ UNCHANGED << mapped, elementMap, vIncomingData, vOutgoingData,
                    vIsDirty, children, mapBuilds >>
    /\ UNCHANGED notVertexVars

\* the elements of the parent vertex: the vertex and a leaf
ParentElements == << "v", "s" >>

\* the element maps the parent vertex can have: none of its elements, one
\* of them or both matched a field
ParentMaps == {[i \in D |-> i] : D \in SUBSET (1..Len(ParentElements))}

\* clientQueueSize and discardOldest of the record bound to the sibling leaf
SiblingQueue == [size |-> 2, discardOldest |-> TRUE]

\* DataElementLeaf::setIncomingEvent(reason) of the sibling leaf
siblingSetIncomingEvent(pelem, reason) ==
    LET r == pushUpdate(pelem.incomingQueue, SiblingQueue.size,
                        SiblingQueue.discardOldest, Update(0, reason, FALSE))
    IN  [pelem |-> [pelem EXCEPT !.incomingQueue = r.queue],
         requested |-> RequestIfFirst(r.wasFirst)]

\* DataElementVertex::setIncomingEvent(reason) of the parent vertex: every
\* element gets the event; the vertex forwards it to its elements, the leaf
\* enqueues it
parentSetIncomingEvent(reason) ==
    /\ vOps < MaxVertexOps
    /\ vOps' = vOps + 1
    /\ LET targets == EventTargets(ParentElements, parentMap)
           f == IF 1 \in targets
                THEN ForwardAll(EventTargets(children, elementMap), reason,
                                children)
                ELSE ForwardAll({}, reason, children)
           g == IF 2 \in targets
                THEN siblingSetIncomingEvent(sibling, reason)
                ELSE [pelem |-> sibling, requested |-> 0]
       IN  /\ children' = f.els
           /\ sibling' = g.pelem
           /\ lastV' = [VertexRecord("parentSetIncomingEvent") EXCEPT
                            !.reason = reason,
                            !.requested = f.requested,
                            !.siblingRequested = g.requested]
    /\ UNCHANGED << mapped, elementMap, vIncomingData, vOutgoingData,
                    vIsDirty, mapBuilds, parentMap, pMapped, pIncomingData,
                    pOutgoingData, pIsDirty >>
    /\ UNCHANGED notParentVars

\* DataElementVertex::requestRecordProcessing(reason) of the parent vertex:
\* forwarded to the elements of its map; the vertex forwards it to the
\* elements of its own map, a leaf hands it to its connector
parentRequestRecordProcessing(reason) ==
    /\ vOps < MaxVertexOps
    /\ vOps' = vOps + 1
    /\ LET targets == RequestTargets(ParentElements, parentMap)
       IN  lastV' = [VertexRecord("parentRequestRecordProcessing") EXCEPT
                        !.reason = reason,
                        !.requested =
                            [c \in 1..Len(children) |->
                                 IF /\ 1 \in targets
                                    /\ c \in RequestTargets(children,
                                                             elementMap)
                                 THEN 1 ELSE 0],
                        !.siblingRequested = IF 2 \in targets THEN 1 ELSE 0]
    /\ UNCHANGED << mapped, elementMap, vIncomingData, vOutgoingData,
                    vIsDirty, children, mapBuilds, parentVars >>
    /\ UNCHANGED notParentVars

\* the values of the parent vertex as constructed, but for its mapped flag
ParentFields ==
    /\ pIncomingData = EmptyVariant
    /\ pOutgoingData = EmptyVariant
    /\ pIsDirty = FALSE

\* the sibling leaf as constructed
SiblingConstructed ==
    sibling = [incomingData |-> NoData, incomingQueue |-> << >>,
               isdirty |-> FALSE, outgoingData |-> NoData]

\* no parent vertex drives the vertex
ParentIdle ==
    /\ parentMap = << >>
    /\ SiblingConstructed
    /\ pMapped = FALSE
    /\ ParentFields

\* a parent vertex whose element map was built before, or not
ParentMapped ==
    /\ parentMap \in ParentMaps
    /\ SiblingConstructed
    /\ pMapped = TRUE
    /\ ParentFields

\* a splice that clears the dirty flag of the child and leaves the field
updateDataInGenericValue_ClearOnly(fields, index, pelem) ==
    [fields |-> fields, pelem |-> [pelem EXCEPT !.isdirty = FALSE],
     updated |-> FALSE]

\* a splice that does not look at the dirty flag of the child
updateDataInGenericValue_Always(fields, index, pelem) ==
    [fields |-> [fields EXCEPT ![index] = pelem.outgoingData],
     pelem |-> [pelem EXCEPT !.isdirty = FALSE],
     updated |-> TRUE]

\* a splice that leaves the dirty flag of the child set
updateDataInGenericValue_KeepDirty(fields, index, pelem) ==
    IF pelem.isdirty
    THEN [fields |-> [fields EXCEPT ![index] = pelem.outgoingData],
          pelem |-> pelem, updated |-> TRUE]
    ELSE [fields |-> fields, pelem |-> pelem, updated |-> FALSE]

\* DataElementVertex::updateDataInGenericValue(value, index, pelem)
updateDataInGenericValue(fields, index, pelem) ==
    IF pelem.isdirty
    THEN [fields |-> [fields EXCEPT ![index] = pelem.outgoingData],
          pelem |-> [pelem EXCEPT !.isdirty = FALSE],
          updated |-> TRUE]
    ELSE [fields |-> fields, pelem |-> pelem, updated |-> FALSE]

\* the loop of getOutgoingData over elementMap, for the indices in `todo`
RECURSIVE UpdateAll(_, _, _, _)
UpdateAll(map, todo, fields, els) ==
    IF todo = {} THEN [fields |-> fields, els |-> els, spliced |-> {}]
    ELSE LET i == CHOOSE j \in todo : TRUE
             u == updateDataInGenericValue(fields, i, els[map[i]])
             r == UpdateAll(map, todo \ {i}, u.fields,
                            [els EXCEPT ![map[i]] = u.pelem])
         IN  [r EXCEPT !.spliced = IF u.updated THEN @ \cup {i} ELSE @]

\* the body of DataElementVertex::getOutgoingData() for a vertex with the
\* given flag, map, cached value and elements: what it leaves of them, its
\* isdirty and the outgoingData it returns
EncodeVertex(isMapped, map, incoming, els) ==
    IF Obtained(incoming)
    THEN LET m == MapIfNeeded(isMapped, map, els,
                              structureDefinition(incoming.typeId))
             u == UpdateAll(m.map, LivePairs(m.map, els),
                            genericValue(incoming), els)
             isdirty == u.spliced # {}
         IN  [mapped |-> m.mapped, map |-> m.map, built |-> m.built,
              els |-> u.els, isdirty |-> isdirty, obtained |-> TRUE,
              spliced |-> u.spliced,
              out |-> IF isdirty THEN toExtensionObject(incoming, u.fields)
                      ELSE incoming,
              gone |-> Expired(els, IF isMapped THEN {}
                                    ELSE 1..Len(els))
                       \cup Expired(els, {m.map[i] : i \in DOMAIN m.map})]
    ELSE [mapped |-> isMapped, map |-> map, built |-> 0, els |-> els,
          isdirty |-> FALSE, obtained |-> FALSE, spliced |-> {},
          out |-> incoming, gone |-> {}]

\* DataElementVertex::getOutgoingData()
getOutgoingData ==
    /\ Running
    /\ vOps < MaxVertexOps
    /\ vOps' = vOps + 1
    /\ UNCHANGED vIncomingData
    /\ LET e == EncodeVertex(mapped, elementMap, vIncomingData, children)
       IN  \E outcome \in Outcomes(e.gone) :
               IF outcome = "crash"
               THEN /\ UNCHANGED << mapped, elementMap, mapBuilds, children >>
                    /\ vIsDirty' = FALSE
                    /\ vOutgoingData' = vIncomingData
                    /\ lastV' = [VertexRecord("getOutgoingData") EXCEPT
                                     !.expired = e.gone, !.outcome = outcome]
               ELSE /\ mapped' = e.mapped
                    /\ elementMap' = e.map
                    /\ mapBuilds' = mapBuilds + e.built
                    /\ children' = e.els
                    /\ vIsDirty' = e.isdirty
                    /\ vOutgoingData' = e.out
                    /\ lastV' = [VertexRecord("getOutgoingData") EXCEPT
                                     !.obtained = e.obtained,
                                     !.spliced = e.spliced,
                                     !.reencoded = e.isdirty, !.ret = e.out,
                                     !.expired = e.gone,
                                     !.outcome = outcome]
    /\ UNCHANGED notVertexVars

\* a record writes value v to the leaf that is element c of the vertex:
\* under outgoingLock, isdirty = true and outgoingData set
writeChild(c, v) ==
    /\ Running
    /\ vOps < MaxVertexOps
    /\ vOps' = vOps + 1
    /\ children' = [children EXCEPT ![c].isdirty = TRUE,
                                    ![c].outgoingData = v]
    /\ lastV' = [VertexRecord("writeChild") EXCEPT !.driven = << >>]
    /\ UNCHANGED << mapped, elementMap, vIncomingData, vOutgoingData,
                    vIsDirty, mapBuilds >>
    /\ UNCHANGED notVertexVars

\* no write to an element yet
NoWrite == [last |-> NoData, splices |-> 0, taken |-> "no"]

\* no getOutgoingData of the vertex in progress
NoEncode == [pc |-> "idle", todo |-> {}, fields |-> << >>, spliced |-> {}]

\* the value a record writes: each write has a value of its own
WriteValue == 10 + vOps

\* DataElementLeaf::writeScalar of the leaf that is element c, from the
\* thread of its record: Guard G(outgoingLock); isdirty = true; the value is
\* put into outgoingData; the lock makes it one step for the vertex
leafWriteScalar(c) ==
    /\ vOps < MaxVertexOps
    /\ vOps' = vOps + 1
    /\ children' = [children EXCEPT ![c].isdirty = TRUE,
                                    ![c].outgoingData = WriteValue]
    /\ wHist' = [wHist EXCEPT ![c] = [last |-> WriteValue, splices |-> 0,
                                       taken |-> "no"]]
    /\ UNCHANGED << mapped, elementMap, vIncomingData, vOutgoingData,
                    vIsDirty, mapBuilds, lastV, enc, encodes >>
    /\ UNCHANGED notEncVars

\* DataElementVertex::getOutgoingData, up to its loop: the cached value is
\* the baseline, isdirty is cleared, the value is decoded and the map built
\* if need be
getOutgoingDataBegin ==
    /\ enc.pc = "idle"
    /\ encodes < MaxEncodes
    /\ encodes' = encodes + 1
    /\ vOutgoingData' = vIncomingData
    /\ vIsDirty' = FALSE
    /\ IF Obtained(vIncomingData)
       THEN LET m == MapIfNeeded(mapped, elementMap, children,
                                 structureDefinition(vIncomingData.typeId))
            IN  /\ mapped' = m.mapped
                /\ elementMap' = m.map
                /\ mapBuilds' = mapBuilds + m.built
                /\ enc' = [pc |-> "loop", todo |-> DOMAIN m.map,
                           fields |-> genericValue(vIncomingData),
                           spliced |-> {}]
       ELSE UNCHANGED << mapped, elementMap, mapBuilds, enc >>
    /\ UNCHANGED << vIncomingData, children, vOps, lastV, wHist >>
    /\ UNCHANGED notEncVars

\* one turn of the loop of getOutgoingData over elementMap (an unordered
\* map): updateDataInGenericValue under the outgoingLock of the element
getOutgoingDataChild ==
    /\ enc.pc = "loop"
    /\ \E i \in enc.todo :
           LET c == elementMap[i]
               u == updateDataInGenericValue(enc.fields, i, children[c])
           IN  /\ children' = [children EXCEPT ![c] = u.pelem]
               /\ vIsDirty' = (vIsDirty \/ u.updated)
               /\ enc' = [enc EXCEPT !.todo = @ \ {i}, !.fields = u.fields,
                                     !.spliced = IF u.updated THEN @ \cup {i}
                                                 ELSE @]
               /\ wHist' = IF u.updated
                           THEN [wHist EXCEPT ![c].splices = @ + 1,
                                              ![c].taken = "inflight"]
                           ELSE wHist
    /\ UNCHANGED << mapped, elementMap, vIncomingData, vOutgoingData,
                    mapBuilds, vOps, lastV, encodes >>
    /\ UNCHANGED notEncVars

\* the end of getOutgoingData: if (isdirty) the generic value is encoded
\* into outgoingData; outgoingData is returned
getOutgoingDataEnd ==
    /\ enc.pc = "loop"
    /\ enc.todo = {}
    /\ vOutgoingData' = IF vIsDirty
                        THEN toExtensionObject(vIncomingData, enc.fields)
                        ELSE vOutgoingData
    /\ enc' = NoEncode
    /\ wHist' = [c \in DOMAIN wHist |->
                     IF /\ wHist[c].taken = "inflight"
                        /\ \E i \in DOMAIN elementMap :
                               /\ elementMap[i] = c
                               /\ vOutgoingData'.fields[i] = wHist[c].last
                     THEN [wHist[c] EXCEPT !.taken = "returned"]
                     ELSE wHist[c]]
    /\ UNCHANGED << mapped, elementMap, vIncomingData, vIsDirty, children,
                    mapBuilds, vOps, lastV, encodes >>
    /\ UNCHANGED notEncVars

\* the session thread pushes a value into the vertex between two
\* getOutgoingData calls
pushBetweenEncodes(reason, value) ==
    /\ enc.pc = "idle"
    /\ vertexSetIncomingEventData(reason, value)

\* no getOutgoingData has begun and no record has written
EncodeIdle ==
    /\ enc = NoEncode
    /\ encodes = 0
    /\ wHist = [c \in 1..Len(ChildNames) |-> NoWrite]

\* the elements of the parent vertex as mapChildren sees them
ParentEls ==
    [c \in 1..Len(ParentElements) |->
         [name |-> ParentElements[c], alive |-> TRUE]]

\* the structured values handed to the parent vertex: a structure of type P
\* whose field v is itself a structure and whose field s is a scalar
NestedValues ==
    {ExtensionObject("P", << ExtensionObject("S1", << 1, 2 >>), 7 >>),
     ExtensionObject("P", << ExtensionObject("S2", << 3, 4 >>), 8 >>)}

\* the values records write to the sibling leaf
SiblingOutVals == {6}

\* DataElementLeaf::setIncomingEvent(reason, value) of the sibling leaf
siblingSetIncomingEventData(pelem, reason, value) ==
    LET r == pushUpdate(pelem.incomingQueue, SiblingQueue.size,
                        SiblingQueue.discardOldest,
                        Update(value, reason, TRUE))
    IN  IF ShouldEnqueue(itemState, reason)
        THEN [pelem |-> [pelem EXCEPT !.incomingData = value,
                                      !.incomingQueue = r.queue],
              requested |-> RequestIfFirst(r.wasFirst)]
        ELSE [pelem |-> [pelem EXCEPT !.incomingData = value],
              requested |-> 0]

\* DataElementVertex::setIncomingEvent(reason, value) of the parent vertex:
\* the value is cached and, when its definition is found, the element of
\* every pair of the parent's map is handed its field: the vertex splits it
\* in turn, the leaf enqueues it
parentSetIncomingEventData(reason, value) ==
    /\ vOps < MaxVertexOps
    /\ vOps' = vOps + 1
    /\ pIncomingData' = value
    /\ LET m == IF Obtained(value)
                THEN MapIfNeeded(pMapped, parentMap, ParentEls,
                                 structureDefinition(value.typeId))
                ELSE [map |-> parentMap, mapped |-> pMapped, built |-> 0]
           toVertex == IF Obtained(value)
                       THEN {i \in DOMAIN m.map : m.map[i] = 1} ELSE {}
           toSibling == IF Obtained(value)
                        THEN {i \in DOMAIN m.map : m.map[i] = 2} ELSE {}
           iv == CHOOSE i \in toVertex : TRUE
           is == CHOOSE i \in toSibling : TRUE
           d == IF toVertex # {}
                THEN DecodeVertex(mapped, elementMap, children, reason,
                                  genericValue(value)[iv])
                ELSE DecodeVertex(mapped, elementMap, children, reason,
                                  EmptyVariant)
           g == IF toSibling # {}
                THEN siblingSetIncomingEventData(sibling, reason,
                                                 genericValue(value)[is])
                ELSE [pelem |-> sibling, requested |-> 0]
       IN  /\ pMapped' = m.mapped
           /\ parentMap' = m.map
           /\ vIncomingData' = IF toVertex # {} THEN genericValue(value)[iv]
                               ELSE vIncomingData
           /\ mapped' = d.mapped
           /\ elementMap' = d.map
           /\ mapBuilds' = mapBuilds + d.built
           /\ children' = d.els
           /\ sibling' = g.pelem
           /\ lastV' = [VertexRecord("parentSetIncomingEventData") EXCEPT
                            !.reason = reason, !.value = value,
                            !.obtained = Obtained(value),
                            !.driven = d.driven,
                            !.requested = d.requested,
                            !.siblingRequested = g.requested]
    /\ UNCHANGED << vOutgoingData, vIsDirty, pOutgoingData, pIsDirty >>
    /\ UNCHANGED notParentVars

\* DataElementVertex::getOutgoingData() of the parent vertex: the cached
\* value is the baseline; updateDataInGenericValue looks at isdirty of the
\* element of every pair of the map and, when it is set, puts what the
\* element's getOutgoingData() returns into the field and clears the flag
parentGetOutgoingData ==
    /\ vOps < MaxVertexOps
    /\ vOps' = vOps + 1
    /\ LET found == Obtained(pIncomingData)
           m == IF found
                THEN MapIfNeeded(pMapped, parentMap, ParentEls,
                                 structureDefinition(pIncomingData.typeId))
                ELSE [map |-> parentMap, mapped |-> pMapped, built |-> 0]
           ofVertex == IF found THEN {i \in DOMAIN m.map : m.map[i] = 1}
                       ELSE {}
           ofSibling == IF found THEN {i \in DOMAIN m.map : m.map[i] = 2}
                        ELSE {}
           takeVertex == ofVertex # {} /\ vIsDirty
           takeSibling == ofSibling # {} /\ sibling.isdirty
           e == EncodeVertex(mapped, elementMap, vIncomingData, children)
           f1 == IF takeVertex
                 THEN [genericValue(pIncomingData) EXCEPT
                           ![CHOOSE i \in ofVertex : TRUE] = e.out]
                 ELSE genericValue(pIncomingData)
           f2 == IF takeSibling
                 THEN [f1 EXCEPT ![CHOOSE i \in ofSibling : TRUE] =
                                     sibling.outgoingData]
                 ELSE f1
           isdirty == takeVertex \/ takeSibling
           out == IF isdirty THEN toExtensionObject(pIncomingData, f2)
                  ELSE pIncomingData
       IN  /\ pMapped' = m.mapped
           /\ parentMap' = m.map
           /\ pIsDirty' = isdirty
           /\ pOutgoingData' = out
           /\ IF takeVertex
              THEN /\ mapped' = e.mapped
                   /\ elementMap' = e.map
                   /\ mapBuilds' = mapBuilds + e.built
                   /\ children' = e.els
                   /\ vOutgoingData' = e.out
                   /\ vIsDirty' = FALSE
              ELSE UNCHANGED << mapped, elementMap, mapBuilds, children,
                                vOutgoingData, vIsDirty >>
           /\ sibling' = IF takeSibling
                         THEN [sibling EXCEPT !.isdirty = FALSE]
                         ELSE sibling
           /\ lastV' = [VertexRecord("parentGetOutgoingData") EXCEPT
                            !.obtained = found,
                            !.spliced = {i \in ofVertex : takeVertex} \cup
                                        {i \in ofSibling : takeSibling},
                            !.reencoded = isdirty, !.ret = out]
    /\ UNCHANGED << vIncomingData, pIncomingData >>
    /\ UNCHANGED notParentVars

\* a record writes value v to the sibling leaf: under outgoingLock,
\* isdirty = true and outgoingData set
writeSibling(v) ==
    /\ vOps < MaxVertexOps
    /\ vOps' = vOps + 1
    /\ sibling' = [sibling EXCEPT !.isdirty = TRUE, !.outgoingData = v]
    /\ lastV' = VertexRecord("writeSibling")
    /\ UNCHANGED << parentMap, pMapped, pIncomingData, pOutgoingData,
                    pIsDirty >>
    /\ UNCHANGED << mapped, elementMap, vIncomingData, vOutgoingData,
                    vIsDirty, children, mapBuilds >>
    /\ UNCHANGED notParentVars

\* the parent vertex as constructed: its mapped flag is not initialized
ParentConstructed ==
    /\ parentMap = << >>
    /\ SiblingConstructed
    /\ pMapped \in BOOLEAN
    /\ ParentFields

\* the record of a vertex no operation was called on
NewVertexRecord ==
    [op |-> "init", reason |-> "none", value |-> EmptyVariant,
     failedBefore |-> FALSE,
     mappedBefore |-> mapped, mapBefore |-> elementMap,
     buildsBefore |-> mapBuilds, childrenBefore |-> children,
     incomingBefore |-> vIncomingData, obtained |-> FALSE,
     driven |-> << >>, spliced |-> {}, reencoded |-> FALSE,
     ret |-> EmptyVariant,
     requested |-> [c \in 1..Len(ChildNames) |-> 0],
     siblingBefore |-> sibling, siblingRequested |-> 0,
     expired |-> {}, outcome |-> "ok",
     aliveBefore |-> 1..Len(ChildNames)]

\* the state of a vertex but for its mapped flag
VertexFields ==
    /\ elementMap = << >>
    /\ vIncomingData = EmptyVariant
    /\ vOutgoingData = EmptyVariant
    /\ vIsDirty = FALSE
    /\ children = [c \in 1..Len(ChildNames) |->
                       [name |-> ChildNames[c], isdirty |-> FALSE,
                        outgoingData |-> NoData, incomingData |-> NoData,
                        incomingQueue |-> << >>, alive |-> TRUE]]
    /\ mapBuilds = 0
    /\ vOps = 0
    /\ lastV = NewVertexRecord

\* DataElementVertex::DataElementVertex: the constructor names the base class
\* and the first element only; mapped is not initialized and reads as
\* either value
VertexConstructed ==
    \E m \in BOOLEAN : mapped = m /\ VertexFields

\* the vertex of the specifications that do not drive it
VertexIdle ==
    /\ mapped = FALSE
    /\ VertexFields

(* ---------------------------------------------------------------------- *)
(* Writers of one leaf: DataElementLeaf::writeScalar / writeArray          *)
(* ---------------------------------------------------------------------- *)

\* the threads that process records writing to the leaf
Writers == {1, 2}

\* the values the records hand to the write functions
WriteValues == {1, 2, 3}

\* no thread holds the mutex
Free == 0

\* isWithinRange<T>(value): the value fits the type of the node
isWithinRange(value) == value \in {1, 2}

\* the slot is stored in two parts (the type of the variant and its payload)
Stored(value) == << value, value >>

\* a writer between two calls
WriterIdle == [pc |-> "idle", value |-> NoData, ret |-> 0]

\* the mutex is taken whoever holds it
CanAcquire_Always(owner) == TRUE

\* Guard G(outgoingLock): epicsMutex, taken only when no thread holds it
CanAcquire(owner) == owner = Free

\* writeScalar: the range check before the critical section; a value out of
\* range raises the alarm and returns 1 without touching the slot
writeScalar(w, value) ==
    /\ writes < MaxWrites
    /\ writer[w].pc = "idle"
    /\ writes' = writes + 1
    /\ writer' = [writer EXCEPT ![w] =
                      IF isWithinRange(value)
                      THEN [pc |-> "guard", value |-> value, ret |-> 0]
                      ELSE [pc |-> "idle", value |-> NoData, ret |-> 1]]
    /\ UNCHANGED << outgoingLock, wIsDirty, wOutgoingData, lockOrder >>
    /\ UNCHANGED notWriteVars

\* writeArray: the checks before the critical section (the incoming value is
\* an array of the type of the record); the array is built outside the lock
writeArray(w, value, typeOk) ==
    /\ writes < MaxWrites
    /\ writer[w].pc = "idle"
    /\ writes' = writes + 1
    /\ writer' = [writer EXCEPT ![w] =
                      IF typeOk
                      THEN [pc |-> "guard", value |-> value, ret |-> 0]
                      ELSE [pc |-> "idle", value |-> NoData, ret |-> 1]]
    /\ UNCHANGED << outgoingLock, wIsDirty, wOutgoingData, lockOrder >>
    /\ UNCHANGED notWriteVars

\* Guard G(outgoingLock): the constructor of the guard takes the mutex
lockOutgoing(w) ==
    /\ writer[w].pc = "guard"
    /\ CanAcquire(outgoingLock)
    /\ outgoingLock' = w
    /\ lockOrder' = Append(lockOrder, writer[w].value)
    /\ writer' = [writer EXCEPT ![w].pc = "locked"]
    /\ UNCHANGED << wIsDirty, wOutgoingData, writes >>
    /\ UNCHANGED notWriteVars

\* isdirty = true;
markDirty(w) ==
    /\ writer[w].pc = "locked"
    /\ wIsDirty' = TRUE
    /\ writer' = [writer EXCEPT ![w].pc = "dirty"]
    /\ UNCHANGED << outgoingLock, wOutgoingData, lockOrder, writes >>
    /\ UNCHANGED notWriteVars

\* outgoingData.setInt32(value) / UaVariant_set(outgoingData, arr): the
\* first part of the slot
storeType(w) ==
    /\ writer[w].pc = "dirty"
    /\ wOutgoingData' = << writer[w].value, wOutgoingData[2] >>
    /\ writer' = [writer EXCEPT ![w].pc = "half"]
    /\ UNCHANGED << outgoingLock, wIsDirty, lockOrder, writes >>
    /\ UNCHANGED notWriteVars

\* ... and the second part of the slot
storeValue(w) ==
    /\ writer[w].pc = "half"
    /\ wOutgoingData' = << wOutgoingData[1], writer[w].value >>
    /\ writer' = [writer EXCEPT ![w].pc = "stored"]
    /\ UNCHANGED << outgoingLock, wIsDirty, lockOrder, writes >>
    /\ UNCHANGED notWriteVars

\* the closing brace: the destructor of the guard gives the mutex back and
\* the write returns 0
unlockOutgoing(w) ==
    /\ writer[w].pc = "stored"
    /\ outgoingLock' = Free
    /\ writer' = [writer EXCEPT ![w] = WriterIdle]
    /\ UNCHANGED << wIsDirty, wOutgoingData, lockOrder, writes >>
    /\ UNCHANGED notWriteVars

(* ---------------------------------------------------------------------- *)
(* The switch of DataElementLeaf::writeScalar<ET> on the type of the node  *)
(* ---------------------------------------------------------------------- *)

\* incomingData.type(): types with a case that always stores (Boolean), with
\* a range check (Byte, SByte), and without a case (Null, the type of the
\* variant before the first value has come in)
ScalarTypes == {"Boolean", "Byte", "SByte", "Null"}

\* values of a record (ET = epicsInt32) around the limits of the types
ScalarValues == {0 - 129, 0 - 1, 0, 1, 128, 256}

\* std::numeric_limits<TO>::lowest() and max()
Lowest(type) == IF type = "SByte" THEN 0 - 128 ELSE 0
Highest(type) == IF type = "SByte" THEN 127 ELSE 255

\* isWithinRange<TO>(value)
InRange(type, value) ==
    ~(value < Lowest(type) \/ value > Highest(type))

\* what the case of the type puts into the slot: setBoolean(value != 0),
\* setByte(static_cast<OpcUa_Byte>(value)), ...
Converted(type, value) ==
    IF type = "Boolean" THEN (IF value = 0 THEN 0 ELSE 1)
    ELSE value % 256

\* the switch: the case of the type, whether it stores, and the status
WriteSwitch(type, value) ==
    IF type = "Boolean" THEN [stores |-> TRUE, ret |-> 0]
    ELSE IF type \in {"Byte", "SByte"}
    THEN (IF InRange(type, value) THEN [stores |-> TRUE, ret |-> 0]
          ELSE [stores |-> FALSE, ret |-> 1])
    ELSE [stores |-> FALSE, ret |-> 0]

\* DataElementLeaf::writeScalar<ET>(value, prec) of a record, no other
\* thread writing
writeScalarET(type, value) ==
    /\ outgoingLock = Free
    /\ LET w == WriteSwitch(type, value)
       IN  /\ wIsDirty' = (wIsDirty \/ w.stores)
           /\ wOutgoingData' = IF w.stores
                               THEN Stored(Converted(type, value))
                               ELSE wOutgoingData
           /\ lastW' = [op |-> "writeScalar", type |-> type, value |-> value,
                        ret |-> w.ret, dirtyBefore |-> wIsDirty,
                        slotBefore |-> wOutgoingData]
    /\ UNCHANGED << outgoingLock, writer, lockOrder, writes >>
    /\ UNCHANGED notScalarVars

\* the vertex above takes the value: pelem->isdirty = false
takeWritten ==
    /\ outgoingLock = Free
    /\ wIsDirty
    /\ wIsDirty' = FALSE
    /\ lastW' = [lastW EXCEPT !.op = "take"]
    /\ UNCHANGED << outgoingLock, wOutgoingData, writer, lockOrder, writes >>
    /\ UNCHANGED notScalarVars

\* no writeScalar<ET> has been called
ScalarIdle ==
    lastW = [op |-> "init", type |-> "Null", value |-> 0, ret |-> 0,
             dirtyBefore |-> FALSE, slotBefore |-> Stored(NoData)]

\* DataElementLeaf::DataElementLeaf: isdirty(false), an empty slot, a free
\* mutex; no write has been called
WriteConstructed ==
    /\ outgoingLock = Free
    /\ wIsDirty = FALSE
    /\ wOutgoingData = Stored(NoData)
    /\ writer = [w \in Writers |-> WriterIdle]
    /\ lockOrder = << >>
    /\ writes = 0

(* ---------------------------------------------------------------------- *)
(* Path splitting: ElementTreeHelper::splitLastName / splitFirstName and   *)
(* the loop of DataElementOpen62541::addElementToTree                      *)
(* ---------------------------------------------------------------------- *)

\* defaultSeparator
Separator == "."

\* the character that makes the following separator a literal
Escape == "\\"

\* the characters of a path: the separator, the escape character, a letter
Alphabet == {Separator, Escape, "a"}

\* the paths handed to the split functions
SplitPaths == UNION {[1..n -> Alphabet] : n \in 0..MaxSplitLen}

\* the name returned for an empty last name
RootLabel == << "<ROOT>" >>

\* the name the open62541 loop gives to an empty leaf name
RootLabelOpen62541 == << "[ROOT]" >>

\* std::string::npos, size_t(-1); size_t values that wrapped below zero
\* are the negative numbers (npos - 1 is -2)
npos == -1

\* fullpath[i] for an index inside the string
At(str, i) == str[i + 1]

\* an index operator[] may be handed: 0 .. size() (the terminator included)
InBounds(str, i) == i >= 0 /\ i <= Len(str)

\* str.find_last_of(separator, pos): the last separator at or before pos
find_last_of(str, pos) ==
    LET last == IF pos < 0 \/ pos >= Len(str) THEN Len(str) - 1 ELSE pos
        hits == {i \in 0..last : At(str, i) = Separator}
    IN  IF hits = {} THEN npos
        ELSE CHOOSE i \in hits : \A j \in hits : j <= i

\* str.find_first_of(separator, pos): the first separator at or after pos
find_first_of(str, pos) ==
    LET hits == IF pos < 0 THEN {}
                ELSE {i \in pos..(Len(str) - 1) : At(str, i) = Separator}
    IN  IF hits = {} THEN npos
        ELSE CHOOSE i \in hits : \A j \in hits : i <= j

\* str.erase(pos, 1) for pos <= size()
erase(str, pos) ==
    [i \in 1..(Len(str) - (IF pos < Len(str) THEN 1 ELSE 0)) |->
         IF i <= pos THEN str[i] ELSE str[i + 1]]

\* str.substr(pos)
substr(str, pos) == SubSeq(str, pos + 1, Len(str))

\* str.substr(0, n), what str.erase(n) leaves
head(str, n) == SubSeq(str, 1, n)

\* fullpath[sep-1] == '\\': for sep = 0 the index wraps to npos and the read
\* is outside the string; what it yields (an escape character or not) is not
\* determined by the program
EscapeTest(str, sep, stray) ==
    IF InBounds(str, sep - 1)
    THEN [read |-> FALSE,
          escaped |-> sep - 1 < Len(str) /\ At(str, sep - 1) = Escape]
    ELSE [read |-> TRUE, escaped |-> stray]

\* the state of a split loop: the string, the index, whether the call ended
\* in std::out_of_range, whether a character outside the string was read
SplitLoop(str, sep, threw, outside) ==
    [str |-> str, sep |-> sep, threw |-> threw, outside |-> outside]

\* while (sep != npos && fullpath[sep-1] == '\\') {
\*     fullpath.erase(--sep, 1); sep = fullpath.find_last_of(separator, --sep); }
RECURSIVE LastLoop(_, _, _, _)
LastLoop(str, sep, stray, outside) ==
    IF sep = npos THEN SplitLoop(str, sep, FALSE, outside)
    ELSE LET test == EscapeTest(str, sep, stray)
             out == outside \/ test.read
         IN  IF ~test.escaped THEN SplitLoop(str, sep, FALSE, out)
             ELSE IF ~InBounds(str, sep - 1)
                  THEN SplitLoop(str, sep - 1, TRUE, out)
                  ELSE LET erased == erase(str, sep - 1)
                       IN  LastLoop(erased,
                                    find_last_of(erased, (sep - 1) - 1),
                                    stray, out)

\* while (sep != npos && fullpath[sep-1] == '\\') {
\*     fullpath.erase(sep-1, 1); sep = fullpath.find_first_of(separator, sep); }
RECURSIVE FirstLoop(_, _, _, _)
FirstLoop(str, sep, stray, outside) ==
    IF sep = npos THEN SplitLoop(str, sep, FALSE, outside)
    ELSE LET test == EscapeTest(str, sep, stray)
             out == outside \/ test.read
         IN  IF ~test.escaped THEN SplitLoop(str, sep, FALSE, out)
             ELSE IF ~InBounds(str, sep - 1)
                  THEN SplitLoop(str, sep - 1, TRUE, out)
                  ELSE LET erased == erase(str, sep - 1)
                       IN  FirstLoop(erased, find_first_of(erased, sep),
                                     stray, out)

\* while (path[sep-1] == '\\') { path.erase(--sep, 1);
\*     sep = path.find_last_of(separator, --sep); }    (no test for npos)
RECURSIVE Open62541Loop(_, _, _, _)
Open62541Loop(str, sep, stray, outside) ==
    LET test == EscapeTest(str, sep, stray)
        out == outside \/ test.read
    IN  IF ~test.escaped THEN SplitLoop(str, sep, FALSE, out)
        ELSE IF ~InBounds(str, sep - 1)
             THEN SplitLoop(str, sep - 1, TRUE, out)
             ELSE LET erased == erase(str, sep - 1)
                  IN  Open62541Loop(erased,
                                    find_last_of(erased, (sep - 1) - 1),
                                    stray, out)

\* what a split returns: the name, the path argument after the call, whether
\* the call ended in an exception, whether it read outside the string
SplitResult(op, input, name, path, loop) ==
    [op |-> op, input |-> input, name |-> name, path |-> path,
     threw |-> loop.threw, outside |-> loop.outside]

\* no split has been called
NoSplit ==
    [op |-> "none", input |-> << >>, name |-> << >>, path |-> << >>,
     threw |-> FALSE, outside |-> FALSE]

\* ElementTreeHelper::splitLastName
splitLastName(str, stray) ==
    LET loop == LastLoop(str, find_last_of(str, npos), stray, FALSE)
        lastname == IF loop.sep = npos THEN loop.str
                    ELSE substr(loop.str, loop.sep + 1)
        rest == IF loop.sep = npos THEN << >> ELSE head(loop.str, loop.sep)
    IN  IF loop.threw
        THEN SplitResult("splitLastName", str, << >>, loop.str, loop)
        ELSE SplitResult("splitLastName", str,
                         IF lastname = << >> THEN RootLabel ELSE lastname,
                         rest, loop)

\* ElementTreeHelper::splitFirstName
splitFirstName(str, stray) ==
    LET loop == FirstLoop(str, find_first_of(str, 0), stray, FALSE)
        firstname == IF loop.sep = npos THEN loop.str
                     ELSE head(loop.str, loop.sep)
        rest == IF loop.sep = npos THEN << >>
                ELSE substr(loop.str, loop.sep + 1)
    IN  IF loop.threw
        THEN SplitResult("splitFirstName", str, << >>, loop.str, loop)
        ELSE SplitResult("splitFirstName", str, firstname, rest, loop)

\* DataElementOpen62541::addElementToTree, the split of the leaf name: the
\* path stays whole, the rest goes to restpath
splitLeafName(str, stray) ==
    LET loop == Open62541Loop(str, find_last_of(str, npos), stray, FALSE)
        leafname == substr(loop.str, loop.sep + 1)
        restpath == IF loop.sep # npos THEN head(loop.str, loop.sep)
                    ELSE << >>
    IN  IF loop.threw
        THEN SplitResult("splitLeafName", str, << >>, loop.str, loop)
        ELSE SplitResult("splitLeafName", str,
                         IF leafname = << >> THEN RootLabelOpen62541
                         ELSE leafname,
                         restpath, loop)

\* a caller hands its path to splitLastName; the path argument is changed
\* in place
callSplitLastName(stray) ==
    /\ lastSplit' = splitLastName(splitPath, stray)
    /\ splitPath' = lastSplit'.path
    /\ UNCHANGED notSplitVars

\* a caller hands its path to splitFirstName (closestExistingVertex does so
\* until the path is used up)
callSplitFirstName(stray) ==
    /\ lastSplit' = splitFirstName(splitPath, stray)
    /\ splitPath' = lastSplit'.path
    /\ UNCHANGED notSplitVars

\* addElementToTree splits the leaf name off its copy of the path
callSplitLeafName(stray) ==
    /\ lastSplit' = splitLeafName(splitPath, stray)
    /\ splitPath' = lastSplit'.path
    /\ UNCHANGED notSplitVars

\* no path is being split
SplitIdle ==
    /\ splitPath = << >>
    /\ lastSplit = NoSplit

\* a path of the record configuration, not yet split
SplitStart ==
    /\ splitPath \in SplitPaths
    /\ lastSplit = NoSplit

(* ---------------------------------------------------------------------- *)
(* The record draining the leaf: processed once for every request of the  *)
(* leaf, and again for as long as a read hands out a nextReason            *)
(* ---------------------------------------------------------------------- *)

\* the read handed out the reason of a further update
MoreToRead(out) == out \notin {"none", Unset}

\* the record is processed for a request of the leaf: it reads one update
\* and asks to be processed again when nextReason is not none
processRecord(found) ==
    /\ handled < requests
    /\ handled' = handled + 1
    /\ LeafRead("readScalar", "scalar", record.valuePtr, record.nextReasonPtr,
                found)
    /\ draining' = (draining \/ MoreToRead(lastOp'.outNextReason))
    /\ UNCHANGED notDrainVars

\* the record is processed again as it asked: it reads the next update
continueDrain(found) ==
    /\ draining
    /\ LeafRead("readScalar", "scalar", record.valuePtr, record.nextReasonPtr,
                found)
    /\ draining' = MoreToRead(lastOp'.outNextReason)
    /\ UNCHANGED handled
    /\ UNCHANGED notDrainVars

\* no request has been handled, no drain is going on
DrainIdle ==
    /\ handled = 0
    /\ draining = FALSE

\* the leaf of a record that takes the nextReason of its reads (the value is
\* of no interest here: value == nullptr drops it)
LeafOfRecord ==
    /\ LeafConstructed
    /\ record = [kind |-> "scalar", valuePtr |-> FALSE, nextReasonPtr |-> TRUE]

(* ---------------------------------------------------------------------- *)
(* Specifications                                                          *)
(* ---------------------------------------------------------------------- *)

(* ---------------------------------------------------------------------- *)
(* Session::createSession and the once-only opcuaUaSdk_init                *)
(* ---------------------------------------------------------------------- *)

\* the threads that call Session::createSession
Threads == {1, 2, 3}

\* an epicsThreadOnce that runs the function on every call
MustInit_Always(id) == TRUE

\* epicsThreadOnce(&id, func, arg): the function is run by the caller that
\* finds the id as EPICS_THREAD_ONCE_INIT
MustInit(id) == id = "init"

\* epicsThreadOnce returns at once only when the function has returned;
\* while another thread runs it, the caller waits
MayPass(id) == id = "done"

\* Session::createSession up to the call of opcuaUaSdk_init, to the wait
\* inside epicsThreadOnce or, when the function has been run, to the
\* return of epicsThreadOnce
createSession(t) ==
    /\ calls < MaxSessions
    /\ caller[t] = "idle"
    /\ calls' = calls + 1
    /\ IF MustInit(once)
       THEN /\ once' = "active"
            /\ caller' = [caller EXCEPT ![t] = "init"]
       ELSE /\ caller' = [caller EXCEPT ![t] =
                              IF MayPass(once) THEN "new" ELSE "wait"]
            /\ UNCHANGED once
    /\ UNCHANGED << inits, initialized, sessions, early >>
    /\ UNCHANGED notSessionVars

\* opcuaUaSdk_init: UaPlatformLayer::init() is entered
opcuaUaSdk_init(t) ==
    /\ caller[t] = "init"
    /\ inits' = inits + 1
    /\ caller' = [caller EXCEPT ![t] = "inside"]
    /\ UNCHANGED << once, initialized, sessions, calls, early >>
    /\ UNCHANGED notSessionVars

\* UaPlatformLayer::init() returns and epicsThreadOnce with it: the id is
\* marked done, the waiting callers go on
initReturns(t) ==
    /\ caller[t] = "inside"
    /\ initialized' = TRUE
    /\ once' = "done"
    /\ caller' = [caller EXCEPT ![t] = "new"]
    /\ UNCHANGED << inits, sessions, calls, early >>
    /\ UNCHANGED notSessionVars

\* epicsThreadOnce returns to a caller that waited
onceReturns(t) ==
    /\ caller[t] = "wait"
    /\ MayPass(once)
    /\ caller' = [caller EXCEPT ![t] = "new"]
    /\ UNCHANGED << once, inits, initialized, sessions, calls, early >>
    /\ UNCHANGED notSessionVars

\* new SessionUaSdk(name, url, autoconnect, debuglevel); and return
newSession(t) ==
    /\ caller[t] = "new"
    /\ sessions' = Append(sessions, t)
    /\ early' = (early \/ ~initialized)
    /\ caller' = [caller EXCEPT ![t] = "idle"]
    /\ UNCHANGED << once, inits, initialized, calls >>
    /\ UNCHANGED notSessionVars

\* static epicsThreadOnceId opcuaUaSdk_once = EPICS_THREAD_ONCE_INIT;
SessionIdle ==
    /\ once = "init"
    /\ caller = [t \in Threads |-> "idle"]
    /\ inits = 0
    /\ initialized = FALSE
    /\ sessions = << >>
    /\ calls = 0
    /\ early = FALSE

\* the parts added to the model after the leaf, the tree and the vertex,
\* as constructed and never driven
OthersIdle ==
    /\ WriteConstructed /\ SplitIdle /\ DrainIdle /\ ParentIdle
    /\ EncodeIdle /\ PushIdle /\ ScalarIdle /\ SessionIdle

\* one leaf with its queue, its producer and the record reading it
InitLeaf == OthersIdle /\ LeafConstructed /\ TreeEmpty /\ VertexIdle

NextLeaf ==
    \/ \E r \in DataReasons : setIncomingEventData(r)
    \/ \E r \in EventReasons : setIncomingEvent(r)
    \/ \E f \in ReadFindings : readScalar(f)
    \/ \E f \in ReadFindings : readScalarCString(f)
    \/ \E f \in ReadFindings : readArray(f)
    \/ \E s \in ConnectionStatus : setState(s)

SpecLeaf == InitLeaf /\ [][NextLeaf]_vars

\* the leaf of the tree specification: constructed, never driven
LeafIdle ==
    /\ LeafConstructed
    /\ capacity = 1
    /\ discardOldest
    /\ record = [kind |-> "scalar", valuePtr |-> TRUE, nextReasonPtr |-> TRUE]

\* the configuration phase: a sequence of addLeaf calls on one tree
InitTree == OthersIdle /\ TreeEmpty /\ LeafIdle /\ VertexIdle

NextTree ==
    \/ \E p \in Paths : addLeaf(p)
    \/ \E l \in 1..Len(nodes) : releaseLeaf(l)

SpecTree == InitTree /\ [][NextTree]_vars

\* the leaf of the fan-out specification: not driven itself, it stands for
\* the item, which is in any connection state
LeafOfItem ==
    /\ itemState \in ConnectionStatus
    /\ LeafFields
    /\ capacity = 1
    /\ discardOldest
    /\ record = [kind |-> "scalar", valuePtr |-> TRUE, nextReasonPtr |-> TRUE]

\* one vertex with its elements, the session driving it and records writing
InitVertex == OthersIdle /\ VertexConstructed /\ LeafIdle /\ TreeEmpty

NextVertex ==
    \/ \E r \in DataReasons, v \in VertexValues :
           vertexSetIncomingEventData(r, v)
    \/ \E r \in EventReasons : vertexSetIncomingEvent(r)
    \/ getOutgoingData
    \/ \E c \in 1..Len(ChildNames), v \in OutVals : writeChild(c, v)
    \/ \E r \in EventReasons : vertexRequestRecordProcessing(r)

SpecVertex == InitVertex /\ [][NextVertex]_vars

\* a vertex below a parent vertex, the session pushing values and events
\* into them and asking for their records to be processed
InitFanOut ==
    /\ ParentMapped /\ VertexConstructed /\ LeafOfItem /\ TreeEmpty
    /\ WriteConstructed /\ SplitIdle /\ DrainIdle /\ EncodeIdle
    /\ PushIdle /\ ScalarIdle /\ SessionIdle

NextFanOut ==
    \/ \E r \in DataReasons, v \in FanOutValues :
           vertexSetIncomingEventData(r, v)
    \/ \E r \in EventReasons : vertexSetIncomingEvent(r)
    \/ \E r \in EventReasons : vertexRequestRecordProcessing(r)
    \/ \E r \in EventReasons : parentSetIncomingEvent(r)
    \/ \E r \in EventReasons : parentRequestRecordProcessing(r)

SpecFanOut == InitFanOut /\ [][NextFanOut]_vars

\* a vertex that is an element of the root vertex, next to a leaf: the
\* session pushes structured values into the root and asks it for the
\* outgoing value, records write to the leaves
InitNested ==
    /\ ParentConstructed /\ VertexConstructed /\ LeafOfItem /\ TreeEmpty
    /\ WriteConstructed /\ SplitIdle /\ DrainIdle /\ EncodeIdle
    /\ PushIdle /\ ScalarIdle /\ SessionIdle

NextNested ==
    \/ \E r \in DataReasons, v \in NestedValues :
           parentSetIncomingEventData(r, v)
    \/ parentGetOutgoingData
    \/ \E c \in 1..Len(ChildNames), v \in OutVals : writeChild(c, v)
    \/ \E v \in SiblingOutVals : writeSibling(v)

SpecNested == InitNested /\ [][NextNested]_vars

\* one vertex, the session thread that pushes values into it and asks it
\* for the outgoing value, and the threads of the records writing to its
\* leaves while it does
InitEncode == OthersIdle /\ VertexConstructed /\ LeafIdle /\ TreeEmpty

NextEncode ==
    \/ \E r \in DataReasons, v \in EncodeValues : pushBetweenEncodes(r, v)
    \/ \E c \in 1..Len(ChildNames) : leafWriteScalar(c)
    \/ getOutgoingDataBegin
    \/ getOutgoingDataChild
    \/ getOutgoingDataEnd

SpecEncode == InitEncode /\ [][NextEncode]_vars

\* one leaf and the threads of the records writing to it
InitWrite ==
    /\ ParentIdle /\ WriteConstructed /\ LeafIdle /\ TreeEmpty /\ VertexIdle
    /\ SplitIdle /\ DrainIdle /\ EncodeIdle
    /\ PushIdle /\ ScalarIdle /\ SessionIdle

NextWrite ==
    \/ \E w \in Writers, v \in WriteValues : writeScalar(w, v)
    \/ \E w \in Writers, v \in WriteValues, ok \in BOOLEAN :
           writeArray(w, v, ok)
    \/ \E w \in Writers : lockOutgoing(w)
    \/ \E w \in Writers : markDirty(w)
    \/ \E w \in Writers : storeType(w)
    \/ \E w \in Writers : storeValue(w)
    \/ \E w \in Writers : unlockOutgoing(w)

SpecWrite == InitWrite /\ [][NextWrite]_vars

\* one path and the functions that split names off it
InitSplit ==
    /\ ParentIdle /\ SplitStart /\ LeafIdle /\ TreeEmpty /\ VertexIdle
    /\ WriteConstructed /\ DrainIdle /\ EncodeIdle
    /\ PushIdle /\ ScalarIdle /\ SessionIdle

NextSplit ==
    \/ \E stray \in BOOLEAN : callSplitLastName(stray)
    \/ \E stray \in BOOLEAN : callSplitFirstName(stray)
    \/ \E stray \in BOOLEAN : callSplitLeafName(stray)

SpecSplit == InitSplit /\ [][NextSplit]_vars

\* one leaf, the session pushing updates into it and the record draining it
InitDrain ==
    /\ ParentIdle /\ LeafOfRecord /\ DrainIdle /\ TreeEmpty /\ VertexIdle
    /\ WriteConstructed /\ SplitIdle /\ EncodeIdle
    /\ PushIdle /\ ScalarIdle /\ SessionIdle

NextDrain ==
    \/ \E r \in DataReasons : setIncomingEventData(r)
    \/ \E r \in EventReasons : setIncomingEvent(r)
    \/ \E s \in ConnectionStatus : setState(s)
    \/ \E f \in ReadFindings : processRecord(f)
    \/ \E f \in ReadFindings : continueDrain(f)

\* the callback threads run every processing that was asked for
SpecDrain ==
    /\ InitDrain
    /\ [][NextDrain]_vars
    /\ WF_vars(\E f \in ReadFindings : processRecord(f))
    /\ WF_vars(\E f \in ReadFindings : continueDrain(f))

(* ---------------------------------------------------------------------- *)
(* Properties of the leaf and its queue                                    *)
(* ---------------------------------------------------------------------- *)

PushOps == {"setIncomingEventData", "setIncomingEvent"}
ReadOps == {"readScalar", "readScalarCString", "readArray"}

\* the seq numbers of the updates of a queue
Seqs(q) == [i \in 1..Len(q) |-> q[i].seq]

\* the last n elements of s (all of s when it is shorter)
LastN(s, n) == IF Len(s) <= n THEN s ELSE SubSeq(s, Len(s) - n + 1, Len(s))

\* s is an order-preserving subsequence of t
RECURSIVE IsSubsequence(_, _)
IsSubsequence(s, t) ==
    IF s = << >> THEN TRUE
    ELSE IF t = << >> THEN FALSE
    ELSE IF Head(s) = Head(t) THEN IsSubsequence(Tail(s), Tail(t))
    ELSE IsSubsequence(s, Tail(t))

\* the last operation was a push, and its update is the newest of the queue
LastPushEnqueued ==
    /\ lastOp.pushCalled
    /\ incomingQueue # << >>
    /\ incomingQueue[Len(incomingQueue)].seq = lastOp.seq

\* C1: wake-once.  A leaf push requests record processing exactly once when
\* it finds the queue empty and enqueues, and never when it finds the queue
\* non-empty; so the queue was empty at some time between two requests.
C1_WakeOnce ==
    lastOp.op \in PushOps =>
        /\ lastOp.requested =
               (IF lastOp.before = << >> /\ LastPushEnqueued THEN 1 ELSE 0)
        /\ (lastOp.requested > 0 => lastOp.drainedBefore)

\* C2: FIFO per leaf.  The updates the reads returned are an order-preserving
\* subsequence of the updates pushed: none reordered, none duplicated.
C2_Fifo == IsSubsequence(popped, pushed)

\* C2 witness: two updates were read after an older one had been discarded
C2_Witness ==
    /\ Len(popped) = 2
    /\ Len(pushed) = 3
    /\ popped # SubSeq(pushed, 1, 2)

\* C3: queue bound.  The queue never holds more than its capacity, and the
\* capacity (and the policy) set by the constructor never change.
C3_QueueBound ==
    /\ [](Len(incomingQueue) >= 0 /\ Len(incomingQueue) <= capacity)
    /\ [][capacity' = capacity /\ discardOldest' = discardOldest]_vars

\* C3 witness: a push met a full queue, after pops, under reject-newest
C3_Witness ==
    /\ lastOp.pushCalled
    /\ Len(lastOp.before) = capacity
    /\ Len(incomingQueue) = capacity
    /\ popped # << >>

\* C4: discard-oldest.  A push on a full discard-oldest queue removes the
\* head and appends the new update; with no pops the queue holds the last
\* `capacity` pushed updates in push order.
C4_DiscardOldest ==
    discardOldest =>
        /\ (lastOp.pushCalled /\ Len(lastOp.before) >= capacity =>
               /\ Len(incomingQueue) = capacity
               /\ SubSeq(incomingQueue, 1, capacity - 1) = Tail(lastOp.before)
               /\ LastPushEnqueued)
        /\ (popped = << >> => Seqs(incomingQueue) = LastN(pushed, capacity))

\* C4 witness: capacity 2, three pushes, no pop: the 2nd and 3rd remain
C4_Witness ==
    /\ discardOldest
    /\ capacity = 2
    /\ popped = << >>
    /\ Len(pushed) = 3
    /\ Seqs(incomingQueue) = SubSeq(pushed, 2, 3)

\* C5: reject-newest.  A push on a full queue with discardOldest = false
\* leaves the queue as it was and reports wasFirst = false.
C5_RejectNewest ==
    (~discardOldest /\ lastOp.pushCalled /\ Len(lastOp.before) >= capacity) =>
        /\ incomingQueue = lastOp.before
        /\ ~lastOp.wasFirst

\* C6: wasFirst.  push returns wasFirst = true exactly when the queue holds
\* one element after the call, and that is exactly when the queue was empty
\* before the call.
C6_WasFirst ==
    lastOp.pushCalled =>
        /\ (lastOp.wasFirst <=> Len(incomingQueue) = 1)
        /\ (Len(incomingQueue) = 1 <=> lastOp.before = << >>)

\* C7: a read on a non-empty queue removes and returns the oldest update and
\* hands the caller, as nextReason, the reason of the update that is the head
\* after the removal, or none when the queue became empty.
C7_PopNextReason ==
    (lastOp.op \in ReadOps /\ lastOp.before # << >>) =>
        /\ lastOp.upd = Head(lastOp.before)
        /\ incomingQueue = Tail(lastOp.before)
        /\ (record.nextReasonPtr =>
               lastOp.outNextReason =
                   (IF incomingQueue = << >> THEN "none"
                    ELSE Head(incomingQueue).reason))

\* C7 witness: a read left an update of another reason at the head
C7_Witness ==
    /\ lastOp.op \in ReadOps
    /\ record.nextReasonPtr
    /\ incomingQueue # << >>
    /\ lastOp.outNextReason = Head(incomingQueue).reason
    /\ lastOp.outNextReason # lastOp.upd.reason

\* C8: a read on the empty queue returns a non-zero status, pops nothing,
\* leaves the queue empty and writes neither a value nor a nextReason.
C8_EmptyRead ==
    (lastOp.op \in ReadOps /\ lastOp.before = << >>) =>
        /\ lastOp.ret # 0
        /\ lastOp.upd = NoUpdate
        /\ incomingQueue = << >>
        /\ lastOp.outValue = Unset
        /\ lastOp.outNextReason = Unset

\* C8 witness: the queue was drained by reads and is read once more
C8_Witness ==
    /\ lastOp.op \in ReadOps
    /\ lastOp.before = << >>
    /\ popped # << >>
    /\ record.nextReasonPtr
    /\ record.valuePtr

(* ---------------------------------------------------------------------- *)
(* Properties of the element tree                                          *)
(* ---------------------------------------------------------------------- *)

\* the elements met walking from element n by the child names of path:
\* n first, then one element (or Null) per name
RECURSIVE WalkNodes(_, _, _)
WalkNodes(ns, n, path) ==
    IF path = << >> THEN << n >>
    ELSE << n >> \o WalkNodes(ns,
                              IF n = Null THEN Null
                              ELSE findChild(ns, n, Head(path)),
                              Tail(path))

\* the number of leading names of path that lead from n to existing elements
RECURSIVE MatchLen(_, _, _)
MatchLen(ns, n, path) ==
    IF n = Null \/ path = << >> THEN 0
    ELSE LET c == findChild(ns, n, Head(path))
         IN  IF c = Null THEN 0 ELSE 1 + MatchLen(ns, c, Tail(path))

\* the deepest existing element that matches a prefix of path, from the root
DeepestMatch(ns, root, path) ==
    IF lock(ns, root) = Null THEN Null
    ELSE WalkNodes(ns, lock(ns, root), path)
             [MatchLen(ns, lock(ns, root), path) + 1]

AddErrors == {"leafError", "rootExists"}
AddResults == {"ok"} \cup AddErrors

\* the root of the tree the last operation started from, Null if it was empty
RootBefore == lock(lastAdd.nodesBefore, lastAdd.rootBefore)

\* C9: addLeaf postcondition.  After a successful addLeaf with a non-empty
\* path, walking from the root by the names of the path ends at the new leaf,
\* every element before it is a vertex, and the call made one vertex per
\* unmatched non-final name, plus the [ROOT] vertex when the tree was empty.
C9_AddLeafPost ==
    (lastAdd.result = "ok" /\ lastAdd.path # << >>) =>
        LET P == lastAdd.path
            k == Len(P)
            w == WalkNodes(nodes, rootElement, P)
            m == MatchLen(lastAdd.nodesBefore, RootBefore, P)
            old == Len(lastAdd.nodesBefore)
            madeVertices == {n \in (old + 1)..Len(nodes) : n # lastAdd.leaf}
        IN  /\ w[k + 1] = lastAdd.leaf
            /\ nodes[lastAdd.leaf].isLeaf
            /\ \A i \in 1..k : w[i] # Null /\ ~nodes[w[i]].isLeaf
            /\ \A n \in madeVertices : ~nodes[n].isLeaf
            /\ Cardinality(madeVertices) =
                   (k - m - 1) + (IF RootBefore = Null THEN 1 ELSE 0)
            /\ \A n \in 1..old :
                   /\ nodes[n].name = lastAdd.nodesBefore[n].name
                   /\ nodes[n].isLeaf = lastAdd.nodesBefore[n].isLeaf

\* C9 witness: a path of three names whose first name matched an existing
\* vertex, so that one vertex and the leaf were made
C9_Witness ==
    /\ lastAdd.result = "ok"
    /\ Len(lastAdd.path) = 3
    /\ MatchLen(lastAdd.nodesBefore, RootBefore, lastAdd.path) = 1
    /\ Len(nodes) = Len(lastAdd.nodesBefore) + 2

\* C10: leaf exclusivity.  addLeaf fails with a configuration error, and
\* attaches nothing, when the deepest existing element matching a prefix of
\* the path is a leaf (the root leaf included); no leaf ever has a child.
C10_LeafExclusive ==
    /\ \A n \in 1..Len(nodes) : nodes[n].isLeaf => nodes[n].elements = << >>
    /\ LET d == DeepestMatch(lastAdd.nodesBefore, lastAdd.rootBefore,
                             lastAdd.path)
       IN  (lastAdd.result \in AddResults /\ d # Null
               /\ lastAdd.nodesBefore[d].isLeaf)
               => /\ lastAdd.result \in AddErrors
                  /\ nodes = lastAdd.nodesBefore
                  /\ rootElement = lastAdd.rootBefore

\* C10 witness: a path that leads through an existing leaf below the root
C10_Witness ==
    /\ lastAdd.result = "leafError"
    /\ lastAdd.rest # << >>
    /\ lastAdd.branch # RootBefore

\* the living elements
Live(ns) == {n \in 1..Len(ns) : ns[n].alive}

\* the last addLeaf was handed the path of a leaf that is in the tree
DuplicatePath ==
    /\ lastAdd.result \in AddResults
    /\ RootBefore # Null
    /\ MatchLen(lastAdd.nodesBefore, RootBefore, lastAdd.path)
           = Len(lastAdd.path)
    /\ lastAdd.nodesBefore[DeepestMatch(lastAdd.nodesBefore,
                                        lastAdd.rootBefore,
                                        lastAdd.path)].isLeaf

RECURSIVE Top(_, _)
Top(ns, n) == IF ns[n].parent = Null THEN n ELSE Top(ns, ns[n].parent)

\* C12: single root.  In a non-empty tree exactly one living element has no
\* parent, it is the element the root reference points to, every other
\* element reaches it by its parent references, and a successful addLeaf on
\* a tree with a living root leaves the root reference as it was.
C12_SingleRoot ==
    /\ Live(nodes) # {} =>
           /\ lock(nodes, rootElement) # Null
           /\ {n \in Live(nodes) : nodes[n].parent = Null} = {rootElement}
           /\ \A n \in Live(nodes) : Top(nodes, n) = rootElement
    /\ (lastAdd.result = "ok" /\ RootBefore # Null) =>
           rootElement = lastAdd.rootBefore

\* C12 witness: a failing addLeaf after a successful one on a tree of at
\* least three elements
C12_Witness ==
    /\ lastAdd.result \in AddErrors
    /\ lastAdd.prev.result = "ok"
    /\ Cardinality(Live(nodes)) >= 3

\* the names from below the root down to element n
RECURSIVE PathOf(_, _)
PathOf(ns, n) ==
    IF ns[n].parent = Null THEN << >>
    ELSE Append(PathOf(ns, ns[n].parent), ns[n].name)

\* the shape of a tree: for every living element its path, its name and its
\* kind, and how many elements there are of that description
Shape(ns) ==
    LET desc(n) == [path |-> PathOf(ns, n), name |-> ns[n].name,
                    isLeaf |-> ns[n].isLeaf]
    IN  {[d |-> desc(n),
          count |-> Cardinality({m \in Live(ns) : desc(m) = desc(n)})]
             : n \in Live(ns)}

IsPrefix(p, q) == Len(p) <= Len(q) /\ SubSeq(q, 1, Len(p)) = p

\* the number of leading names two paths have in common
CommonLen(p, q) ==
    LET same == {i \in 0..Len(p) : i <= Len(q) /\ SubSeq(p, 1, i) = SubSeq(q, 1, i)}
    IN  CHOOSE i \in same : \A j \in same : j <= i

\* the last two operations added leaves at paths none a prefix of the other
TwoAdded ==
    /\ lastAdd.result = "ok"
    /\ lastAdd.prev.result = "ok"
    /\ ~IsPrefix(lastAdd.path, lastAdd.prev.path)
    /\ ~IsPrefix(lastAdd.prev.path, lastAdd.path)

\* C13: prefix sharing is order-independent.  Adding leaves at P1 then P2
\* gives a tree of the same shape as adding them at P2 then P1, and in it
\* each leading name sequence the two paths share is one vertex.
C13_PrefixSharing ==
    TwoAdded =>
        LET P1 == lastAdd.prev.path
            P2 == lastAdd.path
            t1 == Added(lastAdd.prev.nodesBefore, lastAdd.prev.rootBefore, P2)
            t2 == Added(t1.nodes, t1.root, P1)
        IN  /\ t1.result = "ok"
            /\ t2.result = "ok"
            /\ Shape(t2.nodes) = Shape(nodes)
            /\ \A i \in 1..CommonLen(P1, P2) :
                   LET at == {n \in Live(nodes) :
                                  PathOf(nodes, n) = SubSeq(P1, 1, i)}
                   IN  /\ Cardinality(at) = 1
                       /\ \A n \in at : ~nodes[n].isLeaf

\* C13 witness: two paths of three names that share their first two names
C13_Witness ==
    /\ TwoAdded
    /\ Len(lastAdd.path) = 3
    /\ Len(lastAdd.prev.path) = 3
    /\ CommonLen(lastAdd.path, lastAdd.prev.path) = 2

\* the children of vertex v that can still be locked
LiveChildren(ns, v) ==
    {i \in 1..Len(ns[v].elements) : lock(ns, ns[v].elements[i]) # Null}

\* C14: sibling names are unique.  No vertex has two living children of the
\* same name.
C14_SiblingNames ==
    \A v \in Live(nodes) :
        \A i, j \in LiveChildren(nodes, v) :
            nodes[nodes[v].elements[i]].name = nodes[nodes[v].elements[j]].name
                => i = j

\* C14 witness: a vertex below the root has two living children
C14_Witness ==
    /\ lastAdd.result = "ok"
    /\ \E v \in Live(nodes) :
           /\ v # rootElement
           /\ Cardinality(LiveChildren(nodes, v)) >= 2

\* C15: a failing addLeaf changes nothing.  When addLeaf raises an error the
\* root reference and all elements (parents, child lists) are as before the
\* call, and no new element is in the tree.
C15_FailingAddLeaf ==
    lastAdd.result \in AddErrors =>
        /\ rootElement = lastAdd.rootBefore
        /\ nodes = lastAdd.nodesBefore

\* C15 witness: the empty path handed to a tree whose root is a vertex
C15_Witness ==
    /\ lastAdd.result = "rootExists"
    /\ lastAdd.path = << >>
    /\ ~nodes[rootElement].isLeaf

\* C16: root shape.  The root of a non-empty tree is either a leaf added with
\* the empty path, and then the only element, or a vertex named "[ROOT]";
\* a leaf added with a path of one name is a child of that root vertex.
C16_RootShape ==
    /\ Live(nodes) # {} =>
           LET root == lock(nodes, rootElement)
           IN  /\ root # Null
               /\ IF nodes[root].isLeaf
                  THEN /\ nodes[root].name = LeafName(<< >>)
                       /\ Live(nodes) = {root}
                  ELSE nodes[root].name = "[ROOT]"
    /\ (lastAdd.result = "ok" /\ Len(lastAdd.path) = 1) =>
           /\ nodes[lastAdd.leaf].parent = rootElement
           /\ ~nodes[rootElement].isLeaf
           /\ nodes[rootElement].name = "[ROOT]"

\* C16 witness: a leaf with a path of one name added to a tree that has a
\* root vertex with a deeper leaf
C16_Witness ==
    /\ lastAdd.result = "ok"
    /\ Len(lastAdd.path) = 1
    /\ RootBefore # Null
    /\ Cardinality(Live(nodes)) >= 4

\* the elements on the parent chain of n, n included
RECURSIVE Chain(_, _)
Chain(ns, n) ==
    IF ns[n].parent = Null THEN {n} ELSE {n} \cup Chain(ns, ns[n].parent)

\* the leaves that are alive
LiveLeaves(ns) == {l \in Live(ns) : ns[l].isLeaf}

\* C17: lifetime by reference counting.  An element is alive exactly when it
\* is on the parent chain of a living leaf; releasing a leaf destroys the
\* leaf and the ancestors that no other living leaf reaches, and nothing
\* else; with no living leaf the root reference is expired, and the next
\* addLeaf builds a new root.
C17_Lifetime ==
    /\ \A n \in 1..Len(nodes) :
           (~nodes[n].isLeaf) =>
               (nodes[n].alive <=>
                    \E l \in LiveLeaves(nodes) : n \in Chain(nodes, l))
    /\ (LiveLeaves(nodes) = {} => lock(nodes, rootElement) = Null)
    /\ lastAdd.result = "released" =>
           LET before == lastAdd.nodesBefore
               l == lastAdd.leaf
               gone == {n \in Chain(before, l) :
                            \A k \in LiveLeaves(before) \ {l} :
                                n \notin Chain(before, k)}
           IN  /\ Len(nodes) = Len(before)
               /\ \A n \in 1..Len(nodes) :
                      nodes[n] = [before[n] EXCEPT
                                      !.alive = before[n].alive /\ n \notin gone]
               /\ rootElement = lastAdd.rootBefore
    /\ (lastAdd.result = "ok" /\ RootBefore = Null) =>
           /\ lock(nodes, rootElement) # Null
           /\ rootElement > Len(lastAdd.nodesBefore)

\* C17 witness: a leaf was released whose parent stays alive for another
\* leaf, while a vertex that led only to it is destroyed
C17_Witness ==
    /\ lastAdd.result = "released"
    /\ LiveLeaves(nodes) # {}
    /\ \E n \in 1..Len(nodes) :
           /\ ~nodes[n].isLeaf
           /\ lastAdd.nodesBefore[n].alive
           /\ ~nodes[n].alive

(* ---------------------------------------------------------------------- *)
(* Properties of the vertex                                                *)
(* ---------------------------------------------------------------------- *)

VertexUses == {"setIncomingEventData", "getOutgoingData"}

\* the fields whose mapped child was dirty when the last operation began
DirtyFields ==
    {i \in DOMAIN elementMap : lastV.childrenBefore[elementMap[i]].isdirty}

\* C18: field map memoization.  The field map of a vertex is built exactly
\* once, by the first setIncomingEvent(reason, value) or getOutgoingData
\* that obtains a structure definition, and is then the map of the elements
\* to the fields of their names; every later one leaves the map and the
\* mapped flag as they are.
C18_MapOnce ==
    /\ mapBuilds <= 1
    /\ (lastV.op \in VertexUses /\ lastV.obtained) =>
           /\ mapped
           /\ mapBuilds = 1
           /\ (lastV.buildsBefore = 0 =>
                   elementMap =
                       mapChildren(children,
                                   structureDefinition(vIncomingData.typeId)))
           /\ (lastV.buildsBefore = 1 =>
                   elementMap = lastV.mapBefore /\ lastV.mappedBefore)

\* C19: getOutgoingData with no dirty child.  When no mapped child is dirty,
\* getOutgoingData returns the cached incoming value, encodes nothing anew,
\* leaves the vertex not dirty and the children as they were.
C19_EncodeClean ==
    (lastV.op = "getOutgoingData" /\ DirtyFields = {}) =>
        /\ vIncomingData = lastV.incomingBefore
        /\ lastV.ret = vIncomingData
        /\ vOutgoingData = vIncomingData
        /\ ~lastV.reencoded
        /\ ~vIsDirty
        /\ children = lastV.childrenBefore

\* C19 witness: a structure was cached and mapped, a child that is not
\* mapped is dirty, and getOutgoingData returned the structure
C19_Witness ==
    /\ lastV.op = "getOutgoingData"
    /\ lastV.obtained
    /\ DirtyFields = {}
    /\ DOMAIN elementMap # {}
    /\ \E c \in 1..Len(children) : children[c].isdirty

\* what C20 says of the value getOutgoingData returned and of the flags
SpliceResult ==
    /\ lastV.ret.type = vIncomingData.type
    /\ lastV.ret.typeId = vIncomingData.typeId
    /\ Len(lastV.ret.fields) = Len(vIncomingData.fields)
    /\ \A i \in 1..Len(lastV.ret.fields) :
           lastV.ret.fields[i] =
               (IF i \in DirtyFields
                THEN lastV.childrenBefore[elementMap[i]].outgoingData
                ELSE vIncomingData.fields[i])
    /\ \A i \in DOMAIN elementMap : ~children[elementMap[i]].isdirty
    /\ (vIsDirty <=> DirtyFields # {})

\* C20 as stated: after every getOutgoingData the returned value has the
\* child's outgoing value in every field whose mapped child was dirty and
\* the cached incoming value elsewhere, every mapped child is clean, and the
\* vertex is dirty exactly when a field was spliced.
C20_EncodeSpliceAlways ==
    lastV.op = "getOutgoingData" => SpliceResult

\* C20: getOutgoingData splice.  When the cached incoming value is a
\* structure (not a union) whose definition is found, the returned value has
\* the child's outgoing value in every field whose mapped child was dirty
\* and the cached incoming value elsewhere, every mapped child is clean
\* afterwards, and the vertex is dirty exactly when a field was spliced.
C20_EncodeSplice ==
    (lastV.op = "getOutgoingData" /\ lastV.obtained) =>
        /\ SpliceResult
        /\ lastV.spliced = DirtyFields

\* C20 witness: one mapped child was dirty and one clean
C20_Witness ==
    /\ lastV.op = "getOutgoingData"
    /\ lastV.obtained
    /\ DirtyFields # {}
    /\ DirtyFields # DOMAIN elementMap
    /\ lastV.ret # vIncomingData


(* ---------------------------------------------------------------------- *)
(* Properties of the writers of one leaf                                   *)
(* ---------------------------------------------------------------------- *)

\* no write is between its range check and the end of its critical section
WritersQuiet == \A w \in Writers : writer[w].pc = "idle"

\* C21: setOutgoing is atomic and last-write-wins: whenever the outgoing
\* lock is free after at least one successful write, the slot is dirty and
\* holds the complete value of the write that took the lock last; while a
\* write holds the lock no other write changes the slot, so a slot that
\* does not hold one complete value is the half-stored value of the holder
C21_LastWriteWins ==
    /\ (outgoingLock = Free /\ lockOrder # << >>) =>
           /\ wIsDirty
           /\ wOutgoingData = Stored(lockOrder[Len(lockOrder)])
    /\ (wOutgoingData[1] # wOutgoingData[2]) =>
           /\ outgoingLock # Free
           /\ writer[outgoingLock].pc = "half"
           /\ wOutgoingData[1] = writer[outgoingLock].value

\* two writes of different values have both gone through the critical
\* section, the second one while the first was done, and no write is running
C21_Witness ==
    /\ WritersQuiet
    /\ Len(lockOrder) >= 2
    /\ lockOrder[Len(lockOrder)] # lockOrder[Len(lockOrder) - 1]
    /\ wOutgoingData = Stored(lockOrder[Len(lockOrder)])
    /\ wIsDirty


(* ---------------------------------------------------------------------- *)
(* Properties of the path splitting                                        *)
(* ---------------------------------------------------------------------- *)

\* the separator at position i (counted from 1) of str is not immediately
\* preceded by the escape character
Unescaped(str, i) ==
    /\ str[i] = Separator
    /\ (i = 1 \/ str[i - 1] # Escape)

\* the position of the last unescaped separator of str, 0 if there is none
LastUnescaped(str) ==
    LET seps == {i \in 1..Len(str) : Unescaped(str, i)}
    IN  IF seps = {} THEN 0 ELSE CHOOSE i \in seps : \A j \in seps : j <= i

\* the position of the first unescaped separator of str, 0 if there is none
FirstUnescaped(str) ==
    LET seps == {i \in 1..Len(str) : Unescaped(str, i)}
    IN  IF seps = {} THEN 0 ELSE CHOOSE i \in seps : \A j \in seps : i <= j

\* str without the escape characters that stand before a separator
RECURSIVE Unescape(_)
Unescape(str) ==
    IF str = << >> THEN << >>
    ELSE IF Len(str) >= 2 /\ str[1] = Escape /\ str[2] = Separator
         THEN << Separator >> \o Unescape(SubSeq(str, 3, Len(str)))
         ELSE << str[1] >> \o Unescape(Tail(str))

\* the last name of str and what is left of str
LastNameOf(str) == Unescape(SubSeq(str, LastUnescaped(str) + 1, Len(str)))
LastRestOf(str) == SubSeq(str, 1, LastUnescaped(str) - 1)

\* the first name of str and what is left of str
FirstNameOf(str) ==
    IF FirstUnescaped(str) = 0 THEN Unescape(str)
    ELSE Unescape(SubSeq(str, 1, FirstUnescaped(str) - 1))
FirstRestOf(str) ==
    IF FirstUnescaped(str) = 0 THEN << >>
    ELSE SubSeq(str, FirstUnescaped(str) + 1, Len(str))

\* C22: splitLastName returns the text after the last unescaped separator
\* with the escape characters of the skipped separators removed (the root
\* label when that text is empty), and leaves in the path argument the text
\* before that separator, escape sequences untouched; without an unescaped
\* separator the whole path is the name and the path becomes empty
C22_SplitLastName ==
    lastSplit.op = "splitLastName" =>
        /\ ~lastSplit.threw
        /\ lastSplit.name = (IF LastNameOf(lastSplit.input) = << >>
                             THEN RootLabel
                             ELSE LastNameOf(lastSplit.input))
        /\ lastSplit.path = LastRestOf(lastSplit.input)

\* C23: splitLastName never returns an empty name: for the empty path and
\* for a path that ends in an unescaped separator it returns the root label,
\* and the empty path stays empty
C23_RootLabel ==
    lastSplit.op = "splitLastName" =>
        /\ ~lastSplit.threw
        /\ lastSplit.name # << >>
        /\ (lastSplit.input = << >> \/
            LastUnescaped(lastSplit.input) = Len(lastSplit.input)) =>
               lastSplit.name = RootLabel
        /\ lastSplit.input = << >> => lastSplit.path = << >>

\* C24: splitFirstName returns the text before the first unescaped separator
\* with the escape characters of the skipped separators removed, and leaves
\* in the path argument the text after that separator, escape sequences
\* untouched; without an unescaped separator the whole path is returned and
\* the path becomes empty; the empty path gives the empty name
C24_SplitFirstName ==
    lastSplit.op = "splitFirstName" =>
        /\ ~lastSplit.threw
        /\ lastSplit.name = FirstNameOf(lastSplit.input)
        /\ lastSplit.path = FirstRestOf(lastSplit.input)
        /\ lastSplit.input = << >> => lastSplit.name = << >>

\* C25: no split evaluates the escape test for a separator at index 0: no
\* character left of index 0 is read, and the separator at index 0 counts
\* as not escaped, so the call returns
C25_PositionZero ==
    /\ ~lastSplit.outside
    /\ ~lastSplit.threw


(* ---------------------------------------------------------------------- *)
(* Properties of the record draining the leaf                              *)
(* ---------------------------------------------------------------------- *)

\* the update of producer call n is in the queue
Queued(n) == \E i \in 1..Len(incomingQueue) : incomingQueue[i].seq = n

\* the update of producer call n was returned by a read
Popped(n) == \E i \in 1..Len(popped) : popped[i] = n

\* a processing request of the leaf has not been handled yet
RequestPending == handled < requests

\* a non-empty queue has a request pending or a drain in progress
C26_Awake == incomingQueue # << >> => (RequestPending \/ draining)

C27_InitialReadSuppression ==
    /\ lastOp.op = "setIncomingEventData" =>
           /\ incomingData = lastOp.seq
           /\ lastOp.pushCalled <=>
                  \/ itemState = "up"
                  \/ (itemState = "initialRead" /\ lastOp.reason = "readComplete")
           /\ ~lastOp.pushCalled =>
                  /\ incomingQueue = lastOp.before
                  /\ lastOp.requested = 0
    /\ lastOp.op = "setIncomingEvent" =>
           /\ lastOp.pushCalled
           /\ (Len(lastOp.before) < capacity \/ discardOldest) =>
                  LastPushEnqueued

\* a data update of the initial read was cached but kept off a queue that
\* holds an update
C27_Witness ==
    /\ lastOp.op = "setIncomingEventData"
    /\ itemState = "initialRead"
    /\ lastOp.reason = "incomingData"
    /\ ~lastOp.pushCalled
    /\ incomingData = lastOp.seq
    /\ incomingQueue # << >>
    /\ incomingQueue = lastOp.before


(* ---------------------------------------------------------------------- *)
(* Properties of the fan-out of a vertex                                   *)
(* ---------------------------------------------------------------------- *)

\* the elements the field map of the vertex points to
MappedChildren == {elementMap[i] : i \in DOMAIN elementMap}

\* the field names of all the structures the type dictionary knows
AllFieldNames ==
    UNION {{structureDefinition(t).child[i] :
                i \in 1..Len(structureDefinition(t).child)} : t \in TypeIds}

QueueAfterPush(q, size, discard, u) ==
    IF Len(q) < size THEN Append(q, u)
    ELSE IF discard THEN Append(Tail(q), u) ELSE q

VertexEventOps == {"setIncomingEvent", "parentSetIncomingEvent"}

\* C29: an event without value pushed into a vertex is forwarded exactly
\* once to every child, mapped or not, and by a vertex child to its own
\* children, so every leaf below gets exactly one event update enqueued
\* (subject to the discard policy of its queue), whether the field map has
\* been built or not
C29_EventFanOut ==
    /\ lastV.op \in VertexEventOps =>
           \A c \in 1..Len(children) :
               /\ children[c].incomingQueue =
                      QueueAfterPush(lastV.childrenBefore[c].incomingQueue,
                                     ChildQueueSize[c], ChildDiscardOldest[c],
                                     Update(0, lastV.reason, FALSE))
               /\ children[c].incomingData =
                      lastV.childrenBefore[c].incomingData
    /\ lastV.op = "parentSetIncomingEvent" =>
           sibling.incomingQueue =
               QueueAfterPush(lastV.siblingBefore.incomingQueue,
                              SiblingQueue.size, SiblingQueue.discardOldest,
                              Update(0, lastV.reason, FALSE))
    /\ lastV.op = "setIncomingEvent" => sibling = lastV.siblingBefore

\* the parent vertex forwarded an event while the field map of the vertex
\* was not built: every leaf below has it as its newest update
C29_Witness ==
    /\ lastV.op = "parentSetIncomingEvent"
    /\ elementMap = << >>
    /\ mapBuilds = 0
    /\ parentMap = << >>
    /\ \A c \in 1..Len(children) :
           /\ children[c].incomingQueue # << >>
           /\ children[c].incomingQueue[Len(children[c].incomingQueue)] =
                  Update(0, lastV.reason, FALSE)
    /\ Len(children[2].incomingQueue) = 2
    /\ Len(sibling.incomingQueue) = 2

\* the elements the field map of the parent vertex points to
MappedByParent == {parentMap[i] : i \in DOMAIN parentMap}

\* C30: a processing request to a vertex gives exactly one connector request
\* for every leaf reached through mapped children only; leaves under
\* unmapped children get none, and a vertex whose field map has not been
\* built forwards the request to no child
C30_RequestFanOut ==
    /\ lastV.op = "requestRecordProcessing" =>
           /\ \A c \in 1..Len(children) :
                  lastV.requested[c] = (IF c \in MappedChildren THEN 1 ELSE 0)
           /\ lastV.siblingRequested = 0
    /\ lastV.op = "parentRequestRecordProcessing" =>
           /\ \A c \in 1..Len(children) :
                  lastV.requested[c] =
                      (IF 1 \in MappedByParent /\ c \in MappedChildren
                       THEN 1 ELSE 0)
           /\ lastV.siblingRequested =
                  (IF 2 \in MappedByParent THEN 1 ELSE 0)
    /\ lastV.op \in {"requestRecordProcessing",
                     "parentRequestRecordProcessing"} =>
           /\ elementMap = << >> =>
                  \A c \in 1..Len(children) : lastV.requested[c] = 0
           /\ children = lastV.childrenBefore
           /\ sibling = lastV.siblingBefore

\* the parent vertex, with the vertex in its map and the sibling leaf not,
\* forwarded a request: the two mapped leaves of the vertex got one request
\* each, the unmapped leaf and the sibling none
C30_Witness ==
    /\ lastV.op = "parentRequestRecordProcessing"
    /\ MappedByParent = {1}
    /\ MappedChildren = {1, 2}
    /\ lastV.requested = << 1, 1, 0 >>
    /\ lastV.siblingRequested = 0

(* ---------------------------------------------------------------------- *)
(* Properties of a decode that finds no structure definition               *)
(* ---------------------------------------------------------------------- *)

\* the last operation pushed nothing into the subtree and built no map
SubtreeUntouched ==
    /\ children = lastV.childrenBefore
    /\ sibling = lastV.siblingBefore
    /\ \A c \in 1..Len(children) : lastV.requested[c] = 0
    /\ lastV.driven = << >>
    /\ mapped = lastV.mappedBefore
    /\ elementMap = lastV.mapBefore
    /\ mapBuilds = lastV.buildsBefore

\* the last operation was handed a structure whose definition was found,
\* after an earlier value had no definition
LaterValueFound ==
    /\ lastV.op = "setIncomingEventData"
    /\ lastV.obtained
    /\ lastV.failedBefore

\* the value of the last operation went to the element of each field name
DeliveredByName ==
    \A c \in 1..Len(children) :
        \A i \in 1..Len(lastV.value.fields) :
            children[c].name =
                structureDefinition(lastV.value.typeId).child[i] =>
                    /\ i \in DOMAIN lastV.driven
                    /\ lastV.driven[i] = [child |-> c,
                                          reason |-> lastV.reason,
                                          value |-> lastV.value.fields[i]]

\* C31: fail-soft decode.  A setIncomingEvent(reason, value) that finds no
\* structure definition for its value returns to its caller, caches the
\* value, pushes nothing to any child, requests no processing and builds no
\* field map; a later structure whose definition is found is mapped (the
\* field map has been built, once) and delivered to its children
C31_FailSoftDecode ==
    /\ FailedDecode(lastV) =>
           /\ SubtreeUntouched
           /\ vIncomingData = lastV.value
    /\ LaterValueFound =>
           /\ mapped
           /\ mapBuilds = 1
           /\ DOMAIN lastV.driven = DOMAIN elementMap
           /\ lastV.buildsBefore = 0 => DeliveredByName

(* ---------------------------------------------------------------------- *)
(* Properties of the vertices addLeaf makes                                *)
(* ---------------------------------------------------------------------- *)

\* the vertices the last addLeaf made
NewVertices ==
    {n \in (Len(lastAdd.nodesBefore) + 1)..Len(nodes) : ~nodes[n].isLeaf}

\* C32: no childless vertex.  After every addLeaf, successful or failing,
\* every vertex that is part of the tree has at least one child entry, and
\* every vertex the call made lies on the way from the root to the leaf
\* that was added (a failing call makes none)
C32_NoChildlessVertex ==
    /\ \A n \in Live(nodes) :
           ~nodes[n].isLeaf => nodes[n].elements # << >>
    /\ lastAdd.result \in AddErrors =>
           /\ NewVertices = {}
           /\ nodes = lastAdd.nodesBefore
    /\ lastAdd.result = "ok" =>
           /\ NewVertices \subseteq Chain(nodes, lastAdd.leaf)
           /\ Top(nodes, lastAdd.leaf) = lock(nodes, rootElement)
           /\ \A n \in NewVertices :
                  \E k \in 1..Len(nodes[n].elements) :
                      nodes[n].elements[k] \in Chain(nodes, lastAdd.leaf)

\* C32 witness: an addLeaf hung a chain of two new vertices and the leaf
\* below a vertex that was there before
C32_Witness ==
    /\ lastAdd.result = "ok"
    /\ lastAdd.branch # Null
    /\ Cardinality(NewVertices) = 2
    /\ Live(lastAdd.nodesBefore) # {}

(* ---------------------------------------------------------------------- *)
(* Properties of a vertex below the root vertex                            *)
(* ---------------------------------------------------------------------- *)

\* the field of the root's structure that is paired with its element e
FieldOfParent(e) == CHOOSE i \in DOMAIN parentMap : parentMap[i] = e

\* the last operation was a getOutgoingData of the root that found the
\* definition of its cached structure
RootEncoded == lastV.op = "parentGetOutgoingData" /\ lastV.obtained

\* a written value of the leaf next to the vertex is in the value the root
\* returned
SiblingAggregated ==
    (RootEncoded /\ 2 \in MappedByParent /\ lastV.siblingBefore.isdirty) =>
        /\ lastV.ret.fields[FieldOfParent(2)] =
               lastV.siblingBefore.outgoingData
        /\ pIsDirty

\* a written value of a leaf below the vertex is in the nested field of the
\* value the root returned
NestedAggregated ==
    (RootEncoded /\ 1 \in MappedByParent) =>
        \A i \in DOMAIN lastV.mapBefore :
            lastV.childrenBefore[lastV.mapBefore[i]].isdirty =>
                /\ lastV.ret.fields[FieldOfParent(1)].fields[i] =
                       lastV.childrenBefore[lastV.mapBefore[i]].outgoingData
                /\ pIsDirty

\* C33: nested aggregation.  After a write to a leaf at any depth below the
\* root vertex, be it an element of the root or an element of a vertex that
\* is a mapped element of the root, the next getOutgoingData of the root
\* returns a structure with the written value in the (nested) field of the
\* leaf, and the root is dirty
C33_NestedAggregation == SiblingAggregated /\ NestedAggregated

(* ---------------------------------------------------------------------- *)
(* Properties of writes that interleave with getOutgoingData               *)
(* ---------------------------------------------------------------------- *)

\* the elements a record has written to
Written == {c \in DOMAIN wHist : wHist[c].last # NoData}

\* the last value written to element c is in the generic value of the
\* getOutgoingData in progress
InGenericValue(c) ==
    /\ enc.pc = "loop"
    /\ wHist[c].taken = "inflight"
    /\ \E i \in enc.spliced : elementMap[i] = c /\ enc.fields[i] = wHist[c].last

\* C34: no lost write.  However the writes to the leaves interleave with
\* getOutgoingData of their vertex, the last value written to a leaf is in
\* the value a getOutgoingData returned (or is about to return), or the
\* leaf is still dirty, which covers every write before it; the dirty flag
\* is cleared only for a value that was spliced, and no written value is
\* spliced twice
C34_NoLostWrite ==
    \A c \in Written :
        /\ \/ children[c].isdirty
           \/ wHist[c].taken = "returned"
           \/ InGenericValue(c)
        /\ ~children[c].isdirty => wHist[c].splices = 1
        /\ children[c].isdirty => wHist[c].splices = 0
        /\ children[c].outgoingData = wHist[c].last

\* C34 witness: a getOutgoingData has returned the value written to one
\* leaf, while another leaf, written to after the call had looked at it,
\* is still dirty
C34_Witness ==
    /\ enc.pc = "idle"
    /\ \E c, d \in Written :
           /\ wHist[c].taken = "returned"
           /\ ~children[c].isdirty
           /\ vOutgoingData.type = "ExtensionObject"
           /\ children[d].isdirty
           /\ d \in MappedChildren
           /\ wHist[d].last > wHist[c].last
           /\ encodes = 1


\* ---------------------------------------------------------------------
\* A leaf below the vertex is released while the vertex lives on
\* ---------------------------------------------------------------------

\* the record connector of element c lets go of its leaf: the leaf is
\* destroyed, the vertex (kept by another element) keeps the weak
\* reference in `elements` and, once built, in `elementMap`
releaseChild(c) ==
    /\ Running
    /\ children[c].alive
    /\ \E d \in 1..Len(children) : d # c /\ children[d].alive
    /\ Cardinality(Expired(children, 1..Len(children))) < MaxReleases
    /\ children' = [children EXCEPT ![c].alive = FALSE]
    /\ UNCHANGED << mapped, elementMap, vIncomingData, vOutgoingData,
                    vIsDirty, mapBuilds, vOps, lastV >>
    /\ UNCHANGED notVertexVars

InitRelease == OthersIdle /\ VertexConstructed /\ LeafIdle /\ TreeEmpty

NextRelease ==
    \/ \E r \in DataReasons, v \in EncodeValues :
           vertexSetIncomingEventData(r, v)
    \/ \E r \in EventReasons : vertexSetIncomingEvent(r)
    \/ getOutgoingData
    \/ \E r \in EventReasons : vertexRequestRecordProcessing(r)
    \/ \E c \in 1..Len(ChildNames) : releaseChild(c)

SpecRelease == InitRelease /\ [][NextRelease]_vars

\* ---------------------------------------------------------------------
\* Properties of a vertex one of whose leaves was released
\* ---------------------------------------------------------------------

\* the elements the last vertex operation reached
Reached == {lastV.driven[i].child : i \in DOMAIN lastV.driven}

\* C35: after a leaf was released while another element keeps the vertex,
\* every operation of the vertex reaches only elements that are living
\* when it runs and calls nothing through the expired reference left in
\* `elements` or `elementMap`
C35_NoExpiredDispatch ==
    /\ lastV.expired = {}
    /\ Reached \subseteq lastV.aliveBefore

\* the part that holds: no operation delivers to an element that is gone
C35_OnlyLiveReached == Reached \subseteq lastV.aliveBefore


InitPush ==
    /\ OthersIdle /\ TreeEmpty /\ VertexIdle
    /\ itemState \in ConnectionStatus
    /\ LeafFields
    /\ record = [kind |-> "scalar", valuePtr |-> TRUE, nextReasonPtr |-> TRUE]

NextPush ==
    \/ \E op \in {"setIncomingEventData"}, r \in DataReasons :
           setIncomingEventGuard(op, r)
    \/ \E op \in {"setIncomingEvent"}, r \in EventReasons :
           setIncomingEventGuard(op, r)
    \/ setIncomingEventGuardEnd
    \/ setIncomingEventPush
    \/ setIncomingEventRequest
    \/ recordLock
    \/ \E f \in ReadFindings : recordRead(f)

SpecPush == InitPush /\ [][NextPush]_vars

\* ---------------------------------------------------------------------
\* Properties of the connector lock in setIncomingEvent
\* ---------------------------------------------------------------------

\* C36: in setIncomingEvent of a leaf pconnector->lock is held from before
\* the update is enqueued until after the processing request was issued,
\* so the record side never takes the lock between the two
C36_PushIsCriticalSection ==
    /\ push.pc \in {"unguarded", "enqueued"} => connLock = "producer"
    /\ during # "enqueued"


InitScalar == OthersIdle /\ LeafIdle /\ TreeEmpty /\ VertexIdle

NextScalar ==
    \/ \E t \in ScalarTypes, v \in ScalarValues : writeScalarET(t, v)
    \/ takeWritten

SpecScalar == InitScalar /\ [][NextScalar]_vars

\* ---------------------------------------------------------------------
\* Properties of the status of writeScalar
\* ---------------------------------------------------------------------

\* the last writeScalar put the converted value into the slot and set dirty
StoredConverted ==
    /\ wOutgoingData = Stored(Converted(lastW.type, lastW.value))
    /\ InRange(lastW.type, lastW.value) \/ lastW.type = "Boolean"
    /\ lastW.type # "Null"

\* the last writeScalar left the slot and the dirty flag as they were
SlotUntouched ==
    /\ wOutgoingData = lastW.slotBefore
    /\ wIsDirty = lastW.dirtyBefore

\* a writeScalar has just returned
AfterWriteScalar == lastW.op = "writeScalar"

\* C37: writeScalar returns 0 if and only if it stored the converted value
\* and set dirty; when the value is not stored (out of range, unsupported
\* type of the node) it returns non-zero and leaves slot and flag unchanged
C37_StatusMatchesEffect ==
    AfterWriteScalar =>
        /\ lastW.ret = 0 <=> (StoredConverted /\ wIsDirty)
        /\ ~StoredConverted => (lastW.ret # 0 /\ SlotUntouched)

\* the part that holds: for a type of the node that has a case
C37_StatusOfSupportedType ==
    (AfterWriteScalar /\ lastW.type # "Null") =>
        /\ lastW.ret = 0 <=> (StoredConverted /\ wIsDirty)
        /\ ~StoredConverted => (lastW.ret # 0 /\ SlotUntouched)


InitBuilders == OthersIdle /\ TreeEmpty /\ LeafIdle /\ VertexIdle

NextBuilders == \E p \in Paths : addElementToTree(p)

SpecBuilders == InitBuilders /\ [][NextBuilders]_vars

\* ---------------------------------------------------------------------
\* Properties of the two tree builders
\* ---------------------------------------------------------------------

\* the elements without the name of a leaf that has no parent (the root
\* label of the two callers is not the same string)
Unlabelled(ns) ==
    [n \in DOMAIN ns |->
         IF ns[n].isLeaf /\ ns[n].parent = Null
         THEN [ns[n] EXCEPT !.name = "root leaf"] ELSE ns[n]]

\* element n and the living elements below it
RECURSIVE Below(_, _)
Below(ns, n) ==
    {n} \cup UNION {Below(ns, ns[n].elements[i]) :
                        i \in {j \in 1..Len(ns[n].elements) :
                                   lock(ns, ns[n].elements[j]) # Null}}

\* the shape of the tree that hangs on the root
TreeOf(ns, root) ==
    IF lock(ns, root) = Null THEN {}
    ELSE Shape([n \in DOMAIN ns |->
                    [Unlabelled(ns)[n] EXCEPT
                         !.alive = ns[n].alive /\ n \in Below(ns, root)]])

\* what ElementTree::addLeaf makes of the last path on the same tree
ByAddLeaf == Added(lastAdd.nodesBefore, lastAdd.rootBefore, lastAdd.path)

\* the last path equals or passes through the path of a living leaf
ThroughLeaf ==
    /\ lastAdd.path # << >>
    /\ lock(lastAdd.nodesBefore, lastAdd.rootBefore) # Null
    /\ LET w == WalkDown(lastAdd.nodesBefore, lastAdd.rootBefore,
                         lastAdd.path)
       IN  lastAdd.nodesBefore[w.node].isLeaf

\* C38: addElementToTree accepts or rejects each path as addLeaf does and
\* makes the same tree; for a path that equals or passes through the path
\* of a leaf it raises an error, attaches nothing and does not bind the
\* connector to the new leaf
C38_BuildersAgree ==
    lastAdd.result # "none" =>
        /\ (lastAdd.result = "ok") <=> (ByAddLeaf.result = "ok")
        /\ TreeOf(nodes, rootElement) = TreeOf(ByAddLeaf.nodes, ByAddLeaf.root)
        /\ rootElement = ByAddLeaf.root
        /\ ThroughLeaf => /\ lastAdd.result # "ok"
                          /\ nodes = lastAdd.nodesBefore
                          /\ lastAdd.leaf = Null

\* the part that holds: on a tree without leaves in the way the two
\* builders make the same tree
C38_AgreeOnFreshPaths ==
    (lastAdd.result # "none" /\ ByAddLeaf.result = "ok") =>
        /\ lastAdd.result = "ok"
        /\ TreeOf(nodes, rootElement) = TreeOf(ByAddLeaf.nodes, ByAddLeaf.root)
        /\ rootElement = ByAddLeaf.root


InitSession == OthersIdle /\ TreeEmpty /\ LeafIdle /\ VertexIdle

NextSession ==
    \/ \E t \in Threads : createSession(t)
    \/ \E t \in Threads : opcuaUaSdk_init(t)
    \/ \E t \in Threads : initReturns(t)
    \/ \E t \in Threads : onceReturns(t)
    \/ \E t \in Threads : newSession(t)

SpecSession == InitSession /\ [][NextSession]_vars

\* ---------------------------------------------------------------------
\* Properties of the once-only initialization
\* ---------------------------------------------------------------------

\* some thread is about to construct a session or has constructed one
PastTheOnce == sessions # << >> \/ \E t \in Threads : caller[t] = "new"

\* C39: however many createSession calls come from however many threads,
\* UaPlatformLayer::init runs exactly once, and it has returned before any
\* session object is constructed
C39_InitOnce ==
    /\ inits <= 1
    /\ PastTheOnce => (inits = 1 /\ initialized)
    /\ ~early

\* two threads have waited for the third to finish the initialization and
\* there are sessions already
C39_Witness ==
    /\ Len(sessions) >= 2
    /\ inits = 1
    /\ \E t \in Threads : caller[t] = "new"

====
